---------------------------- MODULE Spec2Model ----------------------------
(***************************************************************************)
(* A model of lib/bitcoin.py (Electrum): the base-58/base-43 codec, the    *)
(* address codec, extended keys and BIP32 derivation, low-S signing and    *)
(* the ECIES envelope.                                                     *)
(*                                                                         *)
(* Conventions.  A byte buffer is a sequence of numbers 0..255; a text is  *)
(* a sequence of ASCII codes.  A Python call is an operator returning a    *)
(* record whose field kind says how the call ended: with a value, with     *)
(* None, or by raising.  Python integers are unbounded; where the code     *)
(* needs more than 31 bits the integer is kept as its base-256 digits.     *)
(*                                                                         *)
(* The primitives the file imports (hashlib, hmac, ecdsa, pyaes) are       *)
(* replaced by small stand-ins: secp256k1 by the curve y^2 = x^3 + 7 over  *)
(* GF(43), of prime order 31, and the hash functions by short digests.     *)
(* The field widths that depend on them are scaled with them (a scalar, a  *)
(* coordinate, a chain code, a fingerprint and a child index are one byte  *)
(* each); every scaled width is a named definition.                        *)
(***************************************************************************)
EXTENDS Integers, Sequences, FiniteSets, TLC

VARIABLES
    net,      \* the module globals of lines 40-47 (the network profile)
    AES,      \* line 90-93: TRUE when Cryptodome was importable
    codec,    \* a run of base_encode / base_decode
    adr,      \* a run of the address codec
    xk,       \* a run of the extended-key codec and of BIP32 derivation
    sg,       \* a run of the signer
    ec        \* a run of the ECIES cipher

vars == <<net, AES, codec, adr, xk, sg, ec>>

Idle == [pc |-> "idle"]

\* how a call ended: with a value, or by raising
Ok(v) == [kind |-> "ok", val |-> v]
Raised == [kind |-> "raise", val |-> <<>>]

\* a local variable: v is computed once and the rest goes on with its value
Only(S) == CHOOSE y \in S : TRUE
Bind(v, Rest(_)) == Only({Rest(y) : y \in {v}})

-----------------------------------------------------------------------------
(* Bounds of the model *)

MaxLen == 3         \* longest byte buffer handed to base_encode
MaxText == 3        \* longest text handed to base_decode directly

-----------------------------------------------------------------------------
(* Sequences and unbounded integers *)

RECURSIVE Reverse(_)
Reverse(s) == IF s = <<>> THEN <<>> ELSE Reverse(Tail(s)) \o <<Head(s)>>

Repeat(x, n) == [i \in 1..n |-> x]

\* s[a:b] of Python for 0 <= a, 0 <= b
Slice(s, a, b) ==
    LET hi == IF b < Len(s) THEN b ELSE Len(s)
    IN  IF a >= hi THEN <<>> ELSE SubSeq(s, a + 1, hi)

\* s[a:] of Python for 0 <= a
SliceFrom(s, a) == Slice(s, a, Len(s))

\* s[-n:] of Python for n > 0
LastN(s, n) == IF n >= Len(s) THEN s ELSE SubSeq(s, Len(s) - n + 1, Len(s))

\* s[:-n] of Python for n > 0
DropLastN(s, n) == IF n >= Len(s) THEN <<>> ELSE SubSeq(s, 1, Len(s) - n)

\* the number of leading elements of s equal to x
RECURSIVE LeadingCount(_, _)
LeadingCount(s, x) ==
    IF s = <<>> \/ Head(s) # x THEN 0 ELSE 1 + LeadingCount(Tail(s), x)

\* All sequences over S of length at most n
RECURSIVE SeqsUpTo(_, _)
SeqsUpTo(S, n) ==
    IF n = 0 THEN {<<>>}
    ELSE LET shorter == SeqsUpTo(S, n - 1)
         IN  shorter \cup {Append(s, x) : s \in {t \in shorter : Len(t) = n - 1}, x \in S}

(* A non-negative Python integer as its base-256 digits, least significant
   first, without high zero digits; 0 is the empty sequence. *)
RECURSIVE StripHigh(_)
StripHigh(x) ==
    IF x = <<>> THEN <<>>
    ELSE IF x[Len(x)] = 0 THEN StripHigh(SubSeq(x, 1, Len(x) - 1)) ELSE x

\* x * m + a for a digit sequence x, m >= 1 and a small a (possibly negative,
\* the result being non-negative)
RECURSIVE MulAdd(_, _, _)
MulAdd(x, m, a) ==
    IF x = <<>>
    THEN IF a = 0 THEN <<>> ELSE <<a % 256>> \o MulAdd(<<>>, m, a \div 256)
    ELSE LET t == x[1] * m + a
         IN  <<t % 256>> \o MulAdd(Tail(x), m, t \div 256)

\* divmod(x, d) for a digit sequence x and a small d: the quotient's digits
\* (high zeros not stripped) and the remainder
RECURSIVE DivModDigits(_, _)
DivModDigits(x, d) ==
    IF x = <<>> THEN [q |-> <<>>, r |-> 0]
    ELSE LET hi == DivModDigits(Tail(x), d)
             t  == hi.r * 256 + x[1]
         IN  [q |-> <<t \div d>> \o hi.q, r |-> t % d]

BigDivMod(x, d) ==
    LET dm == DivModDigits(x, d) IN [q |-> StripHigh(dm.q), r |-> dm.r]

\* x >= d for a digit sequence x and a small d (d <= 256)
BigGeq(x, d) == Len(x) >= 2 \/ (Len(x) = 1 /\ x[1] >= d) \/ d <= 0

\* the value of a digit sequence known to be below 256
BigSmall(x) == IF x = <<>> THEN 0 ELSE x[1]

-----------------------------------------------------------------------------
(* Base-58 / base-43 codec, lines 315-378 *)

b58chars ==
  << 49, 50, 51, 52, 53, 54, 55, 56, 57, 65, 66, 67, 68, 69, 70, 71,
     72, 74, 75, 76, 77, 78, 80, 81, 82, 83, 84, 85, 86, 87, 88, 89,
     90, 97, 98, 99, 100, 101, 102, 103, 104, 105, 106, 107, 109, 110, 111, 112,
     113, 114, 115, 116, 117, 118, 119, 120, 121, 122 >>

b43chars ==
  << 48, 49, 50, 51, 52, 53, 54, 55, 56, 57, 65, 66, 67, 68, 69, 70,
     71, 72, 73, 74, 75, 76, 77, 78, 79, 80, 81, 82, 83, 84, 85, 86,
     87, 88, 89, 90, 36, 42, 43, 45, 46, 47, 58 >>

Alphabet(base) == IF base = 43 THEN b43chars ELSE b58chars

\* chars.find(bytes([c])): the 0-based index of c, or -1
Find(chars, c) ==
    IF \E i \in 1..Len(chars) : chars[i] = c
    THEN (CHOOSE i \in 1..Len(chars) : chars[i] = c) - 1
    ELSE -1

\* lines 333-337: the digits of long_value in the base, least significant first
RECURSIVE EncodeDigits(_, _, _)
EncodeDigits(long_value, base, chars) ==
    IF BigGeq(long_value, base)
    THEN LET dm == BigDivMod(long_value, base)
         IN  <<chars[dm.r + 1]>> \o EncodeDigits(dm.q, base, chars)
    ELSE <<chars[BigSmall(long_value) + 1]>>

base_encode(v, base) ==
    Bind(v, LAMBDA b :
        LET chars      == Alphabet(base)
            long_value == StripHigh(Reverse(b))              \* lines 329-331
            result     == EncodeDigits(long_value, base, chars)
            nPad       == LeadingCount(b, 0)                 \* lines 340-345
        IN  Reverse(result \o Repeat(chars[1], nPad)))

(* lines 359-361: long_value = sum of chars.find(c) * base**i.  find gives -1
   for a character outside the alphabet, so the sum can be negative: it is
   kept as a sign and a magnitude, and built most significant digit first
   (x * base + d), which is the same integer. *)
RECURSIVE DecodeValue(_, _, _, _)
DecodeValue(v, base, chars, acc) ==
    IF v = <<>> THEN acc
    ELSE LET d == Find(chars, Head(v))
             nxt == IF acc.neg
                    THEN [neg |-> TRUE, mag |-> MulAdd(acc.mag, base, 0 - d)]
                    ELSE IF acc.mag = <<>>
                         THEN IF d < 0 THEN [neg |-> TRUE, mag |-> <<1>>]
                              ELSE [neg |-> FALSE, mag |-> MulAdd(<<>>, base, d)]
                         ELSE [neg |-> FALSE, mag |-> MulAdd(acc.mag, base, d)]
         IN  DecodeValue(Tail(v), base, chars, nxt)

\* the optional length argument: <<>> is None, <<n>> is n
NoLength == <<>>

base_decode(v, length, base) ==
    Bind(v, LAMBDA t :
    Bind(DecodeValue(t, base, Alphabet(base), [neg |-> FALSE, mag |-> <<>>]), LAMBDA long_value :
        IF long_value.neg
        THEN \* line 367: bytearray.append of a negative number
             [kind |-> "raise", val |-> <<>>]
        ELSE LET digits == IF long_value.mag = <<>> THEN <<0>> ELSE long_value.mag
                 nPad   == LeadingCount(t, Alphabet(base)[1])
                 result == digits \o Repeat(0, nPad)
             IN  IF length # NoLength /\ Len(result) # length[1]
                 THEN [kind |-> "None", val |-> <<>>]
                 ELSE [kind |-> "bytes", val |-> Reverse(result)]))

-----------------------------------------------------------------------------
(* The codec on its own: encode a buffer and decode it back, or decode a
   text handed in from outside. *)

CodecBytes == {0, 1, 58, 255}
CodecBuffers == SeqsUpTo(CodecBytes, MaxLen)
\* '1', '2', 'z' (base 58 only), '0' (base 43 only), '!' (in neither alphabet)
CodecChars == {49, 50, 122, 48, 33}
CodecTexts == SeqsUpTo(CodecChars, MaxText) \ {<<>>}
CodecLengths == {NoLength} \cup {<<n>> : n \in 1..MaxLen}

MainNet ==
    [TESTNET |-> FALSE, NOLNET |-> FALSE,
     ADDRTYPE_P2PKH |-> 0, ADDRTYPE_P2SH |-> 5, ADDRTYPE_P2WPKH |-> 6,
     XPRV_HEADER |-> 76066276, XPUB_HEADER |-> 76067358,
     HEADERS_URL |-> "https://headers.electrum.org/blockchain_headers"]

InitCodec ==
    /\ net = MainNet
    /\ AES = FALSE
    /\ \E mode \in {"bytes", "text"}, v \in CodecBuffers, base \in {58, 43} :
          /\ mode = "text" => v = <<>>
          /\ codec = [pc |-> "start", mode |-> mode, v |-> v, base |-> base,
                      text |-> <<>>, length |-> <<Len(v)>>,
                      res |-> [kind |-> "None", val |-> <<>>]]
    /\ adr = Idle /\ xk = Idle /\ sg = Idle /\ ec = Idle

Encode ==
    /\ codec.pc = "start" /\ codec.mode = "bytes"
    /\ codec' = [codec EXCEPT !.pc = "encoded",
                              !.text = base_encode(codec.v, codec.base)]
    /\ UNCHANGED <<net, AES, adr, xk, sg, ec>>

DecodeBack ==
    /\ codec.pc = "encoded"
    /\ codec' = [codec EXCEPT !.pc = "decoded",
                              !.res = base_decode(codec.text, codec.length, codec.base)]
    /\ UNCHANGED <<net, AES, adr, xk, sg, ec>>

DecodeText ==
    /\ codec.pc = "start" /\ codec.mode = "text"
    /\ \E t \in CodecTexts, l \in CodecLengths :
          codec' = [codec EXCEPT !.pc = "parsed", !.text = t, !.length = l,
                                 !.res = base_decode(t, l, codec.base)]
    /\ UNCHANGED <<net, AES, adr, xk, sg, ec>>

NextCodec == Encode \/ DecodeBack \/ DecodeText

SpecCodec == InitCodec /\ [][NextCodec]_vars

HasForeignChar(t, base) == \E i \in 1..Len(t) : Find(Alphabet(base), t[i]) < 0

(* C1: for every byte buffer b and base in {58, 43},
   base_decode(base_encode(b, base), len(b), base) returns exactly b. *)
C1_RoundTrip ==
    codec.pc = "decoded" => codec.res = [kind |-> "bytes", val |-> codec.v]

(* C2: base_decode never returns a byte buffer for a text that holds a
   character outside the alphabet of the base, whatever the length argument. *)
C2_ForeignRejected ==
    (codec.pc = "parsed" /\ HasForeignChar(codec.text, codec.base))
        => codec.res.kind # "bytes"

-----------------------------------------------------------------------------
(* Stand-ins for hashlib and hmac.  A digest byte is a running value
   h <- h * m + b + 1 (mod 256) over the data, with an odd multiplier m that
   differs from byte to byte of the digest and from hash to hash: a digest is
   a function of the data alone, and changing one byte of the data changes
   every byte of the digest. *)

RECURSIVE Mix(_, _, _)
Mix(m, h, data) ==
    IF data = <<>> THEN h
    ELSE IF Len(data) = 1 THEN (h * m + data[1] + 1) % 256
    ELSE \* the first half, then the second: long data needs no deep recursion
         Bind(Mix(m, h, SubSeq(data, 1, Len(data) \div 2)), LAMBDA h2 :
             Mix(m, h2, SubSeq(data, Len(data) \div 2 + 1, Len(data))))

Digest(tag, data, n) ==
    Bind(data, LAMBDA d :
        [i \in 1..n |-> Mix(2 * (tag * 8 + i) + 1, (tag * 16 + i * 37) % 256, d)])

SHA256_LEN == 2     \* hashlib.sha256: 32 bytes, scaled
H160_LEN == 1       \* ripemd160: 20 bytes, scaled
CSUM_LEN == 1       \* the checksum, Hash(s)[0:4]: 4 bytes, scaled

sha256(x) == Digest(1, x, SHA256_LEN)

Hash(x) == sha256(sha256(x))

hash_160(public_key) == Digest(2, sha256(public_key), H160_LEN)

-----------------------------------------------------------------------------
(* Stand-in for the ecdsa package: the curve y^2 = x^3 + 7 over GF(43), whose
   31 points form a group of prime order, in place of secp256k1.  A point is
   a record of its coordinates; INFINITY has none (x() is None). *)

CurveP == 43
CurveA == 0
CurveB == 7
Order == 31
INFINITY == [x |-> 0 - 1, y |-> 0 - 1]
Generator == [x |-> 2, y |-> 12]

\* pow(b, e, m)
RECURSIVE ModExp(_, _, _)
ModExp(b, e, m) ==
    IF e = 0 THEN 1 % m
    ELSE LET half == ModExp(b, e \div 2, m)
             sq   == (half * half) % m
         IN  IF e % 2 = 1 THEN (sq * (b % m)) % m ELSE sq

\* numbertheory.inverse_mod(a, m) for a not divisible by the prime m
inverse_mod(a, m) == CHOOSE z \in 1..(m - 1) : (z * (a % m)) % m = 1

\* CurveFp.contains_point
contains_point(x, y) == (y * y - (x * x * x + CurveA * x + CurveB)) % CurveP = 0

PointDouble(P) ==
    LET l  == ((3 * P.x * P.x + CurveA) * inverse_mod(2 * P.y, CurveP)) % CurveP
        x3 == (l * l - 2 * P.x) % CurveP
    IN  [x |-> x3, y |-> (l * (P.x - x3) - P.y) % CurveP]

\* Point.__add__
PointAdd(P, Q) ==
    IF P = INFINITY THEN Q
    ELSE IF Q = INFINITY THEN P
    ELSE IF P.x = Q.x
         THEN IF (P.y + Q.y) % CurveP = 0 THEN INFINITY ELSE PointDouble(P)
         ELSE LET l  == ((Q.y - P.y) * inverse_mod(Q.x - P.x, CurveP)) % CurveP
                  x3 == (l * l - P.x - Q.x) % CurveP
              IN  [x |-> x3, y |-> (l * (P.x - x3) - P.y) % CurveP]

\* Point.__mul__: the scalar is reduced modulo the order of the point
RECURSIVE MulRec(_, _)
MulRec(e, P) ==
    IF e = 0 THEN INFINITY
    ELSE LET half == MulRec(e \div 2, P)
             dbl  == IF half = INFINITY THEN INFINITY ELSE PointDouble(half)
         IN  IF e % 2 = 1 THEN PointAdd(dbl, P) ELSE dbl

PointMul(P, k) == IF P = INFINITY THEN INFINITY ELSE MulRec(k % Order, P)

\* the multiples of the generator, computed once
GeneratorMultiples == [k \in 0..(Order - 1) |-> PointMul(Generator, k)]

GMul(k) == GeneratorMultiples[k % Order]

COORD_LEN == 1      \* a coordinate or a scalar in bytes: 32, scaled

\* ecdsa.util.string_to_number: a big-endian buffer as a number; an empty
\* buffer raises, and is not handed in
RECURSIVE string_to_number(_)
string_to_number(b) ==
    IF b = <<>> THEN 0 ELSE string_to_number(DropLastN(b, 1)) * 256 + b[Len(b)]

\* a number below 256^len as len bytes, big-endian ('%064x' % x and bfh)
RECURSIVE NumberToBytes(_, _)
NumberToBytes(num, len) ==
    IF len = 0 THEN <<>> ELSE Append(NumberToBytes(num \div 256, len - 1), num % 256)

\* ecdsa.util.number_to_string(num, order): asserts that num fits
number_to_string(num) ==
    IF num < 0 \/ num >= 256 THEN Raised ELSE Ok(NumberToBytes(num, COORD_LEN))

\* lines 539-552
RECURSIVE ECC_YfromX_from(_, _, _)
ECC_YfromX_from(x, odd, offset) ==
    IF offset >= 128 THEN [kind |-> "raise", y |-> 0, offset |-> offset]
    ELSE LET Mx  == x + offset
             My2 == ModExp(Mx, 3, CurveP) + CurveA * ModExp(Mx, 2, CurveP) + (CurveB % CurveP)
             My  == ModExp(My2, (CurveP + 1) \div 4, CurveP)
         IN  IF contains_point(Mx, My)
             THEN IF odd = (My % 2 = 1)
                  THEN [kind |-> "ok", y |-> My, offset |-> offset]
                  ELSE [kind |-> "ok", y |-> CurveP - My, offset |-> offset]
             ELSE ECC_YfromX_from(x, odd, offset + 1)

ECC_YfromX(x, odd) == ECC_YfromX_from(x, odd, 0)

\* Point(curve, x, y, order): the constructor asserts that the point is on
\* the curve
MakePoint(x, y) ==
    IF contains_point(x, y) THEN [kind |-> "ok", pt |-> [x |-> x, y |-> y]]
    ELSE [kind |-> "AssertionError", pt |-> INFINITY]

\* lines 559-562; the coordinates of INFINITY are None and formatting raises
point_to_ser(P, comp) ==
    IF P = INFINITY THEN Raised
    ELSE IF comp THEN Ok(<<2 + (P.y % 2)>> \o NumberToBytes(P.x, COORD_LEN))
    ELSE Ok(<<4>> \o NumberToBytes(P.x, COORD_LEN) \o NumberToBytes(P.y, COORD_LEN))

\* lines 565-573
ser_to_point(Aser) ==
    IF Aser = <<>> THEN [kind |-> "IndexError", pt |-> INFINITY]
    ELSE IF Aser[1] \notin {2, 3, 4} THEN [kind |-> "AssertionError", pt |-> INFINITY]
    ELSE IF Aser[1] = 4
         THEN IF Len(Aser) < 1 + 2 * COORD_LEN
              THEN [kind |-> "ValueError", pt |-> INFINITY]
              ELSE MakePoint(string_to_number(Slice(Aser, 1, 1 + COORD_LEN)),
                             string_to_number(SliceFrom(Aser, 1 + COORD_LEN)))
         ELSE IF Len(Aser) = 1 THEN [kind |-> "ValueError", pt |-> INFINITY]
              ELSE LET Mx == string_to_number(SliceFrom(Aser, 1))
                       Y  == ECC_YfromX(Mx, Aser[1] = 3)
                   IN  IF Y.kind = "raise" THEN [kind |-> "Exception", pt |-> INFINITY]
                       ELSE MakePoint(Mx, Y.y)

\* lines 252-267 and 427-428: i2o_ECPublicKey / GetPubKey of a Public_key
GetPubKey(P, compressed) == point_to_ser(P, compressed)

\* ecdsa.ecdsa.Public_key(generator, point): raises for INFINITY, whose
\* coordinates cannot be compared.  Its test of the coordinates against the
\* order passes for all but a 2^-128 part of the points of secp256k1, whose
\* order is that close to the field prime; it is not scaled down.
Public_key(P) == IF P = INFINITY THEN [kind |-> "raise", pt |-> P] ELSE [kind |-> "ok", pt |-> P]

\* lines 635-639, EC_KEY.__init__: the secret and the public point
EC_KEY(k) ==
    LET secret == string_to_number(k)
        pub    == Public_key(GMul(secret))
    IN  IF k = <<>> \/ pub.kind = "raise"
        THEN [kind |-> "raise", secret |-> secret, pt |-> INFINITY]
        ELSE [kind |-> "ok", secret |-> secret, pt |-> pub.pt]

\* lines 727-733: ecdsa.SigningKey.from_string asserts the length of the
\* secret and 1 <= secexp < order; the compressed public key is returned
get_pubkeys_from_secret(secret) ==
    IF Len(secret) # COORD_LEN THEN Raised
    ELSE LET secexp == string_to_number(secret)
         IN  IF secexp < 1 \/ secexp >= Order THEN Raised
             ELSE GetPubKey(GMul(secexp), TRUE)

-----------------------------------------------------------------------------
(* The network profile, lines 39-71 *)

set_testnet(g) ==
    [g EXCEPT !.TESTNET = TRUE,
              !.ADDRTYPE_P2PKH = 111, !.ADDRTYPE_P2SH = 196, !.ADDRTYPE_P2WPKH = 3,
              !.XPRV_HEADER = 70615956, !.XPUB_HEADER = 70617039,
              !.HEADERS_URL = "https://headers.electrum.org/testnet_headers"]

set_nolnet(g) ==
    [g EXCEPT !.NOLNET = TRUE,
              !.ADDRTYPE_P2PKH = 0, !.ADDRTYPE_P2SH = 5, !.ADDRTYPE_P2WPKH = 6,
              !.XPRV_HEADER = 76066276, !.XPUB_HEADER = 76067358,
              !.HEADERS_URL = "https://headers.electrum.org/nolnet_headers"]

-----------------------------------------------------------------------------
(* Address codec, lines 283-294 and 459-466.  An address buffer is the tag,
   the hash160 and the checksum: 1 + 20 + 4 = 25 bytes in the code. *)

ADDR_LEN == 1 + H160_LEN + CSUM_LEN

\* hash_160_to_bc_address under the profile g; bytes([addrtype]) raises
\* outside 0..255
hash_160_to_bc_address(g, h160, addrtype) ==
    IF addrtype \notin 0..255 THEN Raised
    ELSE LET s0 == <<addrtype>>
             s1 == IF addrtype = g.ADDRTYPE_P2WPKH THEN s0 \o <<1, 0>> ELSE s0
             s  == s1 \o h160
         IN  Ok(base_encode(s \o Slice(Hash(s), 0, CSUM_LEN), 58))

\* bc_address_to_hash_160: (tag, hash160), or raises when base_decode raised
\* or gave None (line 294 subscripts None)
bc_address_to_hash_160(addr) ==
    LET b == base_decode(addr, <<ADDR_LEN>>, 58)
    IN  IF b.kind # "bytes" THEN [kind |-> "raise", tag |-> 0, h |-> <<>>]
        ELSE [kind |-> "ok", tag |-> b.val[1], h |-> Slice(b.val, 1, 1 + H160_LEN)]

\* is_address without the test of the tag (line 464)
is_address_any_tag(g, addr) ==
    LET d == bc_address_to_hash_160(addr)
    IN  IF d.kind = "raise" THEN Ok(FALSE)
        ELSE LET again == hash_160_to_bc_address(g, d.h, d.tag)
             IN  IF again.kind = "raise" THEN Raised ELSE Ok(addr = again.val)

is_address(g, addr) ==
    LET d == bc_address_to_hash_160(addr)
    IN  IF d.kind = "raise" THEN Ok(FALSE)                        \* lines 460-463
        ELSE IF d.tag \notin {g.ADDRTYPE_P2PKH, g.ADDRTYPE_P2SH} THEN Ok(FALSE)
        ELSE LET again == hash_160_to_bc_address(g, d.h, d.tag)
             IN  IF again.kind = "raise" THEN Raised ELSE Ok(addr = again.val)

-----------------------------------------------------------------------------
(* Extended keys and BIP32, lines 381-395 and 721-894.  The layout of an
   extended key is header (4) | depth (1) | fingerprint | child number |
   chain code | key (1 + scalar, or a compressed point): 78 bytes in the
   code, 4 + 1 + 1 + 1 + 1 + 2 = 10 with the scaled widths. *)

HDR_LEN == 4        \* the type header: 4 bytes
FP_LEN == 1         \* the fingerprint: 4 bytes, scaled
IDX_LEN == 1        \* the child number: 4 bytes, scaled
CC_LEN == 1         \* the chain code: 32 bytes, scaled
XKEY_LEN == HDR_LEN + 1 + FP_LEN + IDX_LEN + CC_LEN + 1 + COORD_LEN
BIP32_PRIME == 128  \* the top bit of a child number: 0x80000000, scaled

\* hmac.new(key, msg, hashlib.sha512).digest(): the left part is as long as
\* a scalar, the right part as a chain code
hmac_sha512(key, msg) == Digest(3, key \o <<Len(key)>> \o msg, COORD_LEN + CC_LEN)

EncodeBase58Check(vchIn) ==
    Bind(vchIn, LAMBDA b : base_encode(b \o Slice(Hash(b), 0, CSUM_LEN), 58))

\* the payload, or None when the checksum differs; raises when base_decode does
DecodeBase58Check(psz) ==
    Bind(base_decode(psz, NoLength, 58), LAMBDA vchRet :
        IF vchRet.kind = "raise" THEN [kind |-> "raise", val |-> <<>>]
        ELSE LET key  == DropLastN(vchRet.val, CSUM_LEN)
                 csum == LastN(vchRet.val, CSUM_LEN)
             IN  IF Slice(Hash(key), 0, CSUM_LEN) # csum
                 THEN [kind |-> "None", val |-> <<>>]
                 ELSE [kind |-> "bytes", val |-> key])

\* the number of hexadecimal digits of i >= 0
RECURSIVE HexLen(_)
HexLen(i) == IF i < 16 THEN 1 ELSE 1 + HexLen(i \div 16)

(* bfh(rev_hex(int_to_hex(i, length))) of lines 746 and 767, and
   bfh("%08X" % i) of lines 875 and 893: i as length bytes, big-endian.  A
   negative i gives a text that is not hexadecimal and bfh raises; an i of
   more than 2*length digits is not padded, and bfh raises when the number
   of digits is odd. *)
IntToBytes(i, length) ==
    IF i < 0 THEN Raised
    ELSE IF HexLen(i) <= 2 * length THEN Ok(NumberToBytes(i, length))
    ELSE IF HexLen(i) % 2 = 1 THEN Raised
    ELSE Ok(NumberToBytes(i, HexLen(i) \div 2))

\* n & BIP32_PRIME
IsPrime(n) == (n \div BIP32_PRIME) % 2 = 1

\* lines 749-757
CKD_priv_s(k, c, s, is_prime) ==
    Bind(EC_KEY(k), LAMBDA keypair :
        IF keypair.kind = "raise" THEN [kind |-> "raise", k |-> <<>>, c |-> <<>>]
        ELSE Bind(hmac_sha512(c, IF is_prime THEN <<0>> \o k \o s
                                 ELSE GetPubKey(keypair.pt, TRUE).val \o s), LAMBDA I :
             Bind(number_to_string((string_to_number(Slice(I, 0, COORD_LEN))
                                    + string_to_number(k)) % Order), LAMBDA k_n :
                IF k_n.kind = "raise" THEN [kind |-> "raise", k |-> <<>>, c |-> <<>>]
                ELSE [kind |-> "ok", k |-> k_n.val, c |-> SliceFrom(I, COORD_LEN)])))

\* lines 744-746
CKD_priv(k, c, n) ==
    LET s == IntToBytes(n, IDX_LEN)
    IN  IF s.kind = "raise" THEN [kind |-> "raise", k |-> <<>>, c |-> <<>>]
        ELSE CKD_priv_s(k, c, s.val, IsPrime(n))

\* lines 770-778
CKD_pub_s(cK, c, s) ==
    Bind(hmac_sha512(c, cK \o s), LAMBDA I :
    Bind(ser_to_point(cK), LAMBDA parent :
        IF parent.kind # "ok" THEN [kind |-> "raise", cK |-> <<>>, c |-> <<>>]
        ELSE Bind(Public_key(PointAdd(GMul(string_to_number(Slice(I, 0, COORD_LEN))),
                                      parent.pt)), LAMBDA public_key :
                IF public_key.kind = "raise" THEN [kind |-> "raise", cK |-> <<>>, c |-> <<>>]
                ELSE [kind |-> "ok", cK |-> GetPubKey(public_key.pt, TRUE).val,
                      c |-> SliceFrom(I, COORD_LEN)])))

\* CKD_pub without the test of the top bit (line 766)
CKD_pub_unchecked(cK, c, n) ==
    LET s == IntToBytes(n, IDX_LEN)
    IN  IF s.kind = "raise" THEN [kind |-> "raise", cK |-> <<>>, c |-> <<>>]
        ELSE CKD_pub_s(cK, c, s.val)

\* lines 765-767
CKD_pub(cK, c, n) ==
    IF IsPrime(n) THEN [kind |-> "raise", cK |-> <<>>, c |-> <<>>]
    ELSE LET s == IntToBytes(n, IDX_LEN)
         IN  IF s.kind = "raise" THEN [kind |-> "raise", cK |-> <<>>, c |-> <<>>]
             ELSE CKD_pub_s(cK, c, s.val)

\* lines 781-786: bfh("%08x" % (header + xtype))
xprv_header(g, xtype) == IntToBytes(g.XPRV_HEADER + xtype, HDR_LEN)
xpub_header(g, xtype) == IntToBytes(g.XPUB_HEADER + xtype, HDR_LEN)

\* lines 789-796; bytes([depth]) raises outside 0..255
serialize_xprv(g, xtype, c, k, depth, fingerprint, child_number) ==
    Bind(xprv_header(g, xtype), LAMBDA hdr :
        IF hdr.kind = "raise" \/ depth \notin 0..255 THEN Raised
        ELSE Ok(EncodeBase58Check(hdr.val \o <<depth>> \o fingerprint \o child_number
                                  \o c \o <<0>> \o k)))

serialize_xpub(g, xtype, c, cK, depth, fingerprint, child_number) ==
    Bind(xpub_header(g, xtype), LAMBDA hdr :
        IF hdr.kind = "raise" \/ depth \notin 0..255 THEN Raised
        ELSE Ok(EncodeBase58Check(hdr.val \o <<depth>> \o fingerprint \o child_number
                                  \o c \o cK)))

NoXkey == [kind |-> "raise", xtype |-> 0, depth |-> 0, fingerprint |-> <<>>,
           child_number |-> <<>>, c |-> <<>>, K_or_k |-> <<>>]

(* int('0x' + bh2u(xkey[0:4]), 16) - header.  A header whose first byte is
   128 or more is a number of 2^31 or more, beyond every header constant plus
   a purpose type: it is told apart before the subtraction. *)
HeaderTooBig(xkey) == xkey[1] >= 128

\* deserialize_xkey without the test of the header (lines 808-809)
deserialize_xkey_any_header(g, xkey_text, prv) ==
    Bind(DecodeBase58Check(xkey_text), LAMBDA xkey :
        IF xkey.kind # "bytes" THEN NoXkey
        ELSE IF Len(xkey.val) # XKEY_LEN THEN NoXkey
        ELSE LET b      == xkey.val
                 off    == HDR_LEN + 1 + FP_LEN + IDX_LEN
                 header == IF prv THEN g.XPRV_HEADER ELSE g.XPUB_HEADER
                 n      == IF prv THEN CC_LEN + 1 ELSE CC_LEN
             IN  IF HeaderTooBig(b) THEN NoXkey
                 ELSE [kind |-> "ok", xtype |-> string_to_number(Slice(b, 0, HDR_LEN)) - header,
                       depth |-> b[HDR_LEN + 1],
                       fingerprint |-> Slice(b, HDR_LEN + 1, HDR_LEN + 1 + FP_LEN),
                       child_number |-> Slice(b, HDR_LEN + 1 + FP_LEN, off),
                       c |-> Slice(b, off, off + CC_LEN),
                       K_or_k |-> SliceFrom(b, off + n)])

\* lines 799-813
deserialize_xkey(g, xkey_text, prv) ==
    Bind(DecodeBase58Check(xkey_text), LAMBDA xkey :
        IF xkey.kind # "bytes" THEN NoXkey                    \* len(None) raises
        ELSE IF Len(xkey.val) # XKEY_LEN THEN NoXkey
        ELSE LET b      == xkey.val
                 off    == HDR_LEN + 1 + FP_LEN + IDX_LEN
                 header == IF prv THEN g.XPRV_HEADER ELSE g.XPUB_HEADER
                 n      == IF prv THEN CC_LEN + 1 ELSE CC_LEN
             IN  IF HeaderTooBig(b) THEN NoXkey
                 ELSE LET xtype == string_to_number(Slice(b, 0, HDR_LEN)) - header
                      IN  IF xtype \notin (IF g.TESTNET THEN {0, 1} ELSE {0}) THEN NoXkey
                          ELSE [kind |-> "ok", xtype |-> xtype, depth |-> b[HDR_LEN + 1],
                                fingerprint |-> Slice(b, HDR_LEN + 1, HDR_LEN + 1 + FP_LEN),
                                child_number |-> Slice(b, HDR_LEN + 1 + FP_LEN, off),
                                c |-> Slice(b, off, off + CC_LEN),
                                K_or_k |-> SliceFrom(b, off + n)])

deserialize_xpub(g, xkey) == deserialize_xkey(g, xkey, FALSE)
deserialize_xprv(g, xkey) == deserialize_xkey(g, xkey, TRUE)

\* lines 840-843
xpub_from_xprv(g, xprv) ==
    Bind(deserialize_xprv(g, xprv), LAMBDA d :
        IF d.kind = "raise" THEN Raised
        ELSE Bind(get_pubkeys_from_secret(d.K_or_k), LAMBDA cK :
                IF cK.kind = "raise" THEN Raised
                ELSE serialize_xpub(g, d.xtype, d.c, cK.val, d.depth, d.fingerprint,
                                    d.child_number)))

\* b"Bitcoin seed"
BitcoinSeed == <<66, 105, 116, 99, 111, 105, 110, 32, 115, 101, 101, 100>>

\* lines 846-853
bip32_root(g, seed, xtype) ==
    Bind(hmac_sha512(BitcoinSeed, seed), LAMBDA I :
    Bind(get_pubkeys_from_secret(Slice(I, 0, COORD_LEN)), LAMBDA cK :
    Bind(serialize_xprv(g, xtype, SliceFrom(I, COORD_LEN), Slice(I, 0, COORD_LEN), 0,
                        Repeat(0, FP_LEN), Repeat(0, IDX_LEN)), LAMBDA xprv :
        IF cK.kind = "raise" \/ xprv.kind = "raise"
        THEN [kind |-> "raise", xprv |-> <<>>, xpub |-> <<>>]
        ELSE [kind |-> "ok", xprv |-> xprv.val,
              xpub |-> serialize_xpub(g, xtype, SliceFrom(I, COORD_LEN), cK.val, 0,
                                      Repeat(0, FP_LEN), Repeat(0, IDX_LEN)).val])))

(* Path texts: 'm', '/', the digits and the hardened marker "'". *)

\* sequence.startswith(branch)
StartsWith(sequence, branch) ==
    Len(branch) <= Len(sequence) /\ SubSeq(sequence, 1, Len(branch)) = branch

\* text.split('/'): the components, at least one
RECURSIVE SplitFrom(_, _)
SplitFrom(text, cur) ==
    IF text = <<>> THEN <<cur>>
    ELSE IF Head(text) = 47 THEN <<cur>> \o SplitFrom(Tail(text), <<>>)
    ELSE SplitFrom(Tail(text), Append(cur, Head(text)))

Split(text) == SplitFrom(text, <<>>)

\* int(n) for a text of decimal digits; any other text of the model ('m', a
\* text with the marker, the empty text) raises ValueError
RECURSIVE DigitsValue(_)
DigitsValue(n) ==
    IF n = <<>> THEN 0 ELSE DigitsValue(DropLastN(n, 1)) * 10 + (n[Len(n)] - 48)

ParseInt(n) ==
    IF n # <<>> /\ \A j \in 1..Len(n) : n[j] \in 48..57
    THEN Ok(DigitsValue(n)) ELSE [kind |-> "raise", val |-> 0]

\* line 869: i = int(n[:-1]) + BIP32_PRIME if n[-1] == "'" else int(n)
PrivIndex(n) ==
    IF n[Len(n)] = 39
    THEN LET v == ParseInt(DropLastN(n, 1))
         IN  IF v.kind = "raise" THEN v ELSE Ok(v.val + BIP32_PRIME)
    ELSE ParseInt(n)

\* lines 867-872: the loop; bound says that parent_k and i were assigned
RECURSIVE PrivLoop(_, _)
PrivLoop(comps, st) ==
    IF comps = <<>> \/ st.kind = "raise" THEN st
    ELSE IF Head(comps) = <<>> THEN PrivLoop(Tail(comps), st)
    ELSE Bind(PrivIndex(Head(comps)), LAMBDA i :
            IF i.kind = "raise" THEN [st EXCEPT !.kind = "raise"]
            ELSE Bind(CKD_priv(st.k, st.c, i.val), LAMBDA child :
                    IF child.kind = "raise" THEN [st EXCEPT !.kind = "raise"]
                    ELSE Bind([kind |-> "ok", k |-> child.k, c |-> child.c,
                               depth |-> st.depth + 1, parent |-> st.k,
                               i |-> i.val, bound |-> TRUE], LAMBDA nxt :
                            PrivLoop(Tail(comps), nxt))))

NoPair == [kind |-> "raise", xprv |-> <<>>, xpub |-> <<>>]

\* lines 873-879, after the loop
PrivSerialize(g, xtype, st) ==
    IF st.kind = "raise" \/ ~st.bound THEN NoPair               \* line 873: parent_k unbound
    ELSE Bind(get_pubkeys_from_secret(st.parent), LAMBDA parent_cK :
         Bind(IntToBytes(st.i, IDX_LEN), LAMBDA child_number :
         Bind(get_pubkeys_from_secret(st.k), LAMBDA cK :
            IF parent_cK.kind = "raise" \/ child_number.kind = "raise" \/ cK.kind = "raise"
            THEN NoPair
            ELSE Bind(Slice(hash_160(parent_cK.val), 0, FP_LEN), LAMBDA fingerprint :
                 Bind(serialize_xpub(g, xtype, st.c, cK.val, st.depth, fingerprint,
                                     child_number.val), LAMBDA xpub :
                 Bind(serialize_xprv(g, xtype, st.c, st.k, st.depth, fingerprint,
                                     child_number.val), LAMBDA xprv :
                    IF xpub.kind = "raise" \/ xprv.kind = "raise" THEN NoPair
                    ELSE [kind |-> "ok", xprv |-> xprv.val, xpub |-> xpub.val]))))))

\* lines 861-879
bip32_private_derivation(g, xprv, branch, sequence) ==
    IF ~StartsWith(sequence, branch) THEN NoPair
    ELSE IF branch = sequence
    THEN Bind(xpub_from_xprv(g, xprv), LAMBDA xpub :
            IF xpub.kind = "raise" THEN NoPair
            ELSE [kind |-> "ok", xprv |-> xprv, xpub |-> xpub.val])
    ELSE Bind(deserialize_xprv(g, xprv), LAMBDA d :
            IF d.kind = "raise" THEN NoPair
            ELSE Bind(PrivLoop(Split(SliceFrom(sequence, Len(branch))),
                               [kind |-> "ok", k |-> d.K_or_k, c |-> d.c,
                                depth |-> d.depth, parent |-> <<>>, i |-> 0,
                                bound |-> FALSE]), LAMBDA st :
                    PrivSerialize(g, d.xtype, st)))

\* lines 886-891: the loop
RECURSIVE PubLoop(_, _)
PubLoop(comps, st) ==
    IF comps = <<>> \/ st.kind = "raise" THEN st
    ELSE IF Head(comps) = <<>> THEN PubLoop(Tail(comps), st)
    ELSE Bind(ParseInt(Head(comps)), LAMBDA i :
            IF i.kind = "raise" THEN [st EXCEPT !.kind = "raise"]
            ELSE Bind(CKD_pub(st.cK, st.c, i.val), LAMBDA child :
                    IF child.kind = "raise" THEN [st EXCEPT !.kind = "raise"]
                    ELSE Bind([kind |-> "ok", cK |-> child.cK, c |-> child.c,
                               depth |-> st.depth + 1, parent |-> st.cK,
                               i |-> i.val, bound |-> TRUE], LAMBDA nxt :
                            PubLoop(Tail(comps), nxt))))

\* lines 882-894
bip32_public_derivation(g, xpub, branch, sequence) ==
    Bind(deserialize_xpub(g, xpub), LAMBDA d :
        IF d.kind = "raise" \/ ~StartsWith(sequence, branch) THEN Raised
        ELSE Bind(PubLoop(Split(SliceFrom(sequence, Len(branch))),
                          [kind |-> "ok", cK |-> d.K_or_k, c |-> d.c,
                           depth |-> d.depth, parent |-> <<>>, i |-> 0,
                           bound |-> FALSE]), LAMBDA st :
                IF st.kind = "raise" \/ ~st.bound THEN Raised     \* line 892: parent_cK unbound
                ELSE Bind(IntToBytes(st.i, IDX_LEN), LAMBDA child_number :
                        IF child_number.kind = "raise" THEN Raised
                        ELSE serialize_xpub(g, d.xtype, st.c, st.cK, st.depth,
                                            Slice(hash_160(st.parent), 0, FP_LEN),
                                            child_number.val))))

-----------------------------------------------------------------------------
(* The address codec on its own.  The profile is chosen first (set_testnet,
   set_nolnet, in any order); then an address is made from a hash160 and a
   tag, possibly damaged on its way, and handed to is_address and to
   bc_address_to_hash_160. *)

AddrHashes == {<<0>>, <<1>>, <<200>>}
AllHash160 == {<<b>> : b \in 0..255}
AddrTags == {0, 5, 6, 111, 196, 3, 1}
\* '1' (the zero digit), 'z', '0' and '!' (outside the alphabet)
AddrChars == {49, 122, 48, 33}

InitAddr ==
    /\ net = MainNet
    /\ AES = FALSE
    /\ adr = [pc |-> "start", h |-> <<>>, tag |-> 0, addr |-> <<>>, cand |-> <<>>,
              ok |-> Ok(FALSE), dec |-> [kind |-> "raise", tag |-> 0, h |-> <<>>]]
    /\ codec = Idle /\ xk = Idle /\ sg = Idle /\ ec = Idle

AddrSetTestnet ==
    /\ adr.pc = "start"
    /\ net' = set_testnet(net)
    /\ UNCHANGED <<AES, codec, adr, xk, sg, ec>>

AddrSetNolnet ==
    /\ adr.pc = "start"
    /\ net' = set_nolnet(net)
    /\ UNCHANGED <<AES, codec, adr, xk, sg, ec>>

MakeAddress ==
    /\ adr.pc = "start"
    /\ \E h \in AddrHashes, t \in AddrTags :
          LET a == hash_160_to_bc_address(net, h, t)
          IN  adr' = [adr EXCEPT !.pc = "made", !.h = h, !.tag = t,
                                 !.addr = a.val, !.cand = a.val]
    /\ UNCHANGED <<net, AES, codec, xk, sg, ec>>

\* one character replaced, the last character dropped, or a character added
DamageAddress ==
    /\ adr.pc = "made"
    /\ \E c \in AddrChars :
          \/ \E i \in 1..Len(adr.addr) :
                /\ adr.addr[i] # c
                /\ adr' = [adr EXCEPT !.pc = "damaged", !.cand = [adr.addr EXCEPT ![i] = c]]
          \/ adr' = [adr EXCEPT !.pc = "damaged", !.cand = Append(adr.addr, c)]
          \/ adr' = [adr EXCEPT !.pc = "damaged", !.cand = DropLastN(adr.addr, 1)]
    /\ UNCHANGED <<net, AES, codec, xk, sg, ec>>

CheckAddress ==
    /\ adr.pc \in {"made", "damaged"}
    /\ adr' = [adr EXCEPT !.pc = "checked",
                          !.ok = is_address(net, adr.cand),
                          !.dec = bc_address_to_hash_160(adr.cand)]
    /\ UNCHANGED <<net, AES, codec, xk, sg, ec>>

NextAddr == AddrSetTestnet \/ AddrSetNolnet \/ MakeAddress \/ DamageAddress \/ CheckAddress

SpecAddr == InitAddr /\ [][NextAddr]_vars

AcceptedTags == {net.ADDRTYPE_P2PKH, net.ADDRTYPE_P2SH}

\* the profiles set_testnet and set_nolnet can produce
ReachableProfiles ==
    {MainNet, set_testnet(MainNet), set_nolnet(MainNet),
     set_nolnet(set_testnet(MainNet)), set_testnet(set_nolnet(MainNet))}

\* per profile, the addresses of all hash160 values under the accepted tags
EncodedAddresses ==
    [g \in ReachableProfiles |->
        {hash_160_to_bc_address(g, h, t).val :
            h \in AllHash160, t \in {g.ADDRTYPE_P2PKH, g.ADDRTYPE_P2SH}}]

\* the text is the address of some hash160 under an accepted tag, and dec is
\* that tag and hash160
IsEncodedAddress(text, dec) ==
    /\ text \in EncodedAddresses[net]
    /\ dec.kind = "ok"
    /\ dec.tag \in AcceptedTags
    /\ dec.h \in AllHash160
    /\ hash_160_to_bc_address(net, dec.h, dec.tag) = Ok(text)

(* C10: is_address never raises; it returns True exactly for the texts that
   are the encoding of a hash160 under ADDRTYPE_P2PKH or ADDRTYPE_P2SH of the
   active profile (checksum recomputed), and False for every other text; for
   every hash160 h and accepted tag t, is_address(hash_160_to_bc_address(h, t))
   is True and bc_address_to_hash_160 returns (t, h). *)
C10_IsAddress ==
    adr.pc = "checked" =>
        /\ adr.ok.kind = "ok"
        /\ adr.ok.val = (adr.cand \in EncodedAddresses[net])
        /\ adr.ok.val => IsEncodedAddress(adr.cand, adr.dec)
        /\ (adr.cand = adr.addr /\ adr.tag \in AcceptedTags) =>
               /\ adr.ok.val = TRUE
               /\ adr.dec = [kind |-> "ok", tag |-> adr.tag, h |-> adr.h]

C10_Witness ==
    /\ adr.pc = "checked" /\ adr.cand = adr.addr /\ adr.tag = net.ADDRTYPE_P2SH
    /\ net.TESTNET /\ adr.ok = Ok(TRUE) /\ adr.h = <<0>>

\* a damaged text that still decodes to an accepted tag is refused
C10_WitnessRefused ==
    /\ adr.pc = "checked" /\ adr.cand # adr.addr /\ adr.dec.kind = "ok"
    /\ adr.dec.tag \in AcceptedTags /\ adr.ok = Ok(FALSE)

-----------------------------------------------------------------------------
(* BIP32 derivation.  The profile is chosen first; a root key comes from a
   seed (bip32_root) or is an extended private key handed in; then the
   private engine and the public engine derive the same path from it.  The
   child derivation functions are also called directly. *)

MaxHops == 2

\* the first gives a master scalar that is no valid secret
Bip32Seeds == {<<0>>, <<69>>}
\* scalars handed in inside an extended private key; 0 is no valid secret
Bip32Secrets == {<<0>>, <<7>>}
\* parent scalars of the direct calls, the order of the group and one more included
ChildSecrets == {<<k>> : k \in 0..(Order + 1)}
Bip32Chains == {<<0>>, <<9>>}
\* child numbers: plain, with the top bit, and beyond the width
Bip32Indices == {0, 1, 127, 128, 129, 255, 4096}
\* "0", "1", "1'", "128", "4096"
PathParts == {<<48>>, <<49>>, <<49, 39>>, <<49, 50, 56>>, <<52, 48, 57, 54>>}
\* "m", "m/", "m/1'", "m/1'/", "m/0"
Branches == {<<109>>, <<109, 47>>, <<109, 47, 49, 39>>, <<109, 47, 49, 39, 47>>,
             <<109, 47, 48>>}

RECURSIVE JoinParts(_)
JoinParts(cs) == IF cs = <<>> THEN <<>> ELSE <<47>> \o Head(cs) \o JoinParts(Tail(cs))

\* "m", then "/" and a component up to MaxHops times, then perhaps "/"
PathTexts ==
    {<<109>> \o JoinParts(cs) \o tl : cs \in SeqsUpTo(PathParts, MaxHops), tl \in {<<>>, <<47>>}}

NoChild == [kind |-> "raise", k |-> <<>>, c |-> <<>>]
NoChildPub == [kind |-> "raise", cK |-> <<>>, c |-> <<>>]

InitBip32 ==
    /\ net = MainNet
    /\ AES = FALSE
    /\ xk = [pc |-> "start", xprv |-> <<>>, branch |-> <<>>, sequence |-> <<>>,
             priv |-> NoPair, xpub |-> Raised, pub |-> Raised,
             k |-> <<>>, c |-> <<>>, n |-> 0, cpriv |-> NoChild, cpub |-> NoChildPub]
    /\ codec = Idle /\ adr = Idle /\ sg = Idle /\ ec = Idle

Bip32SetTestnet ==
    /\ xk.pc = "start"
    /\ ~net.TESTNET
    /\ net' = set_testnet(net)
    /\ UNCHANGED <<AES, codec, adr, xk, sg, ec>>

\* bip32_root(seed, xtype)
Bip32Root ==
    /\ xk.pc = "start"
    /\ \E seed \in Bip32Seeds, xtype \in {0, 1} :
          LET r == bip32_root(net, seed, xtype)
          IN  xk' = [xk EXCEPT !.pc = IF r.kind = "ok" THEN "rooted" ELSE "failed",
                               !.xprv = r.xprv]
    /\ UNCHANGED <<net, AES, codec, adr, sg, ec>>

\* an extended private key from outside: serialize_xprv of any scalar
Bip32Import ==
    /\ xk.pc = "start"
    /\ \E k \in Bip32Secrets, c \in {<<9>>}, depth \in {0, 255} :
          LET x == serialize_xprv(net, 0, c, k, depth, <<0>>, <<0>>)
          IN  xk' = [xk EXCEPT !.pc = "rooted", !.xprv = x.val]
    /\ UNCHANGED <<net, AES, codec, adr, sg, ec>>

\* bip32_private_derivation(xprv, branch, sequence)
DerivePrivate ==
    /\ xk.pc = "rooted"
    /\ \E branch \in Branches, sequence \in PathTexts :
          xk' = [xk EXCEPT !.pc = "private", !.branch = branch, !.sequence = sequence,
                           !.priv = bip32_private_derivation(net, xk.xprv, branch, sequence)]
    /\ UNCHANGED <<net, AES, codec, adr, sg, ec>>

\* bip32_public_derivation(xpub_from_xprv(xprv), branch, sequence)
DerivePublic ==
    /\ xk.pc = "private"
    /\ LET xpub == xpub_from_xprv(net, xk.xprv)
       IN  xk' = [xk EXCEPT !.pc = "public", !.xpub = xpub,
                            !.pub = IF xpub.kind = "raise" THEN Raised
                                    ELSE bip32_public_derivation(net, xpub.val, xk.branch,
                                                                 xk.sequence)]
    /\ UNCHANGED <<net, AES, codec, adr, sg, ec>>

\* CKD_priv(k, c, n)
ChildPriv ==
    /\ xk.pc = "start"
    /\ \E k \in ChildSecrets, c \in Bip32Chains, n \in Bip32Indices :
          xk' = [xk EXCEPT !.pc = "ckd_priv", !.k = k, !.c = c, !.n = n,
                           !.cpriv = CKD_priv(k, c, n)]
    /\ UNCHANGED <<net, AES, codec, adr, sg, ec>>

\* CKD_pub(cK, c, n) for the public key of the same parent
ChildPub ==
    /\ xk.pc = "ckd_priv"
    /\ LET parent == EC_KEY(xk.k)
       IN  /\ parent.kind = "ok"
           /\ xk' = [xk EXCEPT !.pc = "ckd_pub",
                               !.cpub = CKD_pub(GetPubKey(parent.pt, TRUE).val, xk.c, xk.n)]
    /\ UNCHANGED <<net, AES, codec, adr, sg, ec>>

NextBip32 ==
    \/ Bip32SetTestnet \/ Bip32Root \/ Bip32Import \/ DerivePrivate \/ DerivePublic
    \/ ChildPriv \/ ChildPub

SpecBip32 == InitBip32 /\ [][NextBip32]_vars

\* the components the engines derive: those of sequence[len(branch):]
DerivedParts ==
    LET comps == Split(SliceFrom(xk.sequence, Len(xk.branch)))
    IN  {j \in 1..Len(comps) : comps[j] # <<>>}

DerivedPart(j) == Split(SliceFrom(xk.sequence, Len(xk.branch)))[j]

\* written with the marker, or an integer with the top bit of a child number
HardenedPart(n) ==
    n # <<>> /\ (n[Len(n)] = 39 \/ (ParseInt(n).kind = "ok" /\ IsPrime(ParseInt(n).val)))

\* written with the marker, or an integer of 2^31 (scaled: 2^7) or more
AtLeastPrime(n) ==
    n # <<>> /\ (n[Len(n)] = 39 \/ (ParseInt(n).kind = "ok" /\ ParseInt(n).val >= BIP32_PRIME))

(* C3, as stated: CKD_pub fails for every n with the top bit set, and
   bip32_public_derivation fails for every path (its sequence argument) that
   contains a hardened component, written with "'" or an integer >= 2^31, at
   any position. *)
C3_AnyHardenedFails ==
    /\ (xk.pc = "ckd_pub" /\ IsPrime(xk.n)) => xk.cpub.kind = "raise"
    /\ (xk.pc = "public" /\ xk.xpub.kind = "ok"
        /\ \E j \in 1..Len(Split(xk.sequence)) : AtLeastPrime(Split(xk.sequence)[j]))
           => xk.pub.kind = "raise"

(* C3, amended: CKD_pub fails for every n with the top bit set, and
   bip32_public_derivation fails whenever the part of the path after the
   branch prefix contains, at any position, a component written with "'" or
   an integer with the top bit of a child number set. *)
C3_HardenedFails ==
    /\ (xk.pc = "ckd_pub" /\ IsPrime(xk.n)) => xk.cpub.kind = "raise"
    /\ (xk.pc = "public" /\ StartsWith(xk.sequence, xk.branch)
        /\ \E j \in DerivedParts : HardenedPart(DerivedPart(j)))
           => xk.pub.kind = "raise"

\* a hardened component in second place, after one the public engine derives
C3_Witness ==
    /\ xk.pc = "public" /\ xk.xpub.kind = "ok" /\ xk.priv.kind = "ok"
    /\ StartsWith(xk.sequence, xk.branch)
    /\ Cardinality(DerivedParts) = 2
    /\ \E j \in DerivedParts :
          /\ HardenedPart(DerivedPart(j)) /\ ParseInt(DerivedPart(j)).kind = "ok"
          /\ \E h \in DerivedParts : h < j /\ ~HardenedPart(DerivedPart(h))
    /\ xk.pub.kind = "raise"

C3_WitnessChild == xk.pc = "ckd_pub" /\ xk.n = 255 /\ xk.cpub.kind = "raise"

\* the left part of the HMAC output of CKD_priv(k, c, n), as a number
ChildLeft(k, c, n) ==
    LET cK   == GetPubKey(EC_KEY(k).pt, TRUE).val
        s    == IntToBytes(n, IDX_LEN).val
        data == IF IsPrime(n) THEN <<0>> \o k \o s ELSE cK \o s
    IN  string_to_number(Slice(hmac_sha512(c, data), 0, COORD_LEN))

(* C4: CKD_priv(k, c, n) signals an error when the left half of the HMAC
   output is, as an integer, the curve order or more, and when the child
   scalar (left half + k) mod order is 0; in neither case a child is
   returned. *)
C4_InvalidChildRaises ==
    (/\ xk.pc \in {"ckd_priv", "ckd_pub"}
     /\ EC_KEY(xk.k).kind = "ok" /\ IntToBytes(xk.n, IDX_LEN).kind = "ok"
     /\ \/ ChildLeft(xk.k, xk.c, xk.n) >= Order
        \/ (ChildLeft(xk.k, xk.c, xk.n) + string_to_number(xk.k)) % Order = 0)
        => xk.cpriv.kind = "raise"

\* a child scalar of zero is returned
C4_ZeroChildReturned ==
    /\ xk.pc = "ckd_priv" /\ xk.cpriv.kind = "ok"
    /\ string_to_number(xk.cpriv.k) = 0

(* C8: for every extended private key, branch and path of non-hardened
   indices, bip32_public_derivation(xpub_from_xprv(xprv), branch, path) is
   the extended public key that bip32_private_derivation(xprv, branch, path)
   returns as its second component. *)
C8_EnginesAgree ==
    (/\ xk.pc = "public" /\ xk.priv.kind = "ok"
     /\ \A j \in DerivedParts : ParseInt(DerivedPart(j)).kind = "ok"
                                /\ ~IsPrime(ParseInt(DerivedPart(j)).val))
        => xk.pub = Ok(xk.priv.xpub)

\* the engines agree whenever there is something to derive
EnginesAgreeOnChildren ==
    (/\ xk.pc = "public" /\ xk.xpub.kind = "ok" /\ xk.branch # xk.sequence
     /\ \A j \in DerivedParts : ~HardenedPart(DerivedPart(j)))
        => /\ xk.priv.kind = xk.pub.kind
           /\ xk.priv.kind = "ok" => xk.pub = Ok(xk.priv.xpub)

EnginesAgreeWitness ==
    /\ xk.pc = "public" /\ xk.priv.kind = "ok" /\ Cardinality(DerivedParts) = 2
    /\ xk.pub = Ok(xk.priv.xpub)

\* the direct calls agree as well: the child public key is the public key
\* of the child scalar
ChildrenAgree ==
    (xk.pc = "ckd_pub" /\ xk.cpub.kind = "ok" /\ xk.cpriv.kind = "ok")
        => /\ xk.cpub.c = xk.cpriv.c
           /\ Ok(xk.cpub.cK) = GetPubKey(GMul(string_to_number(xk.cpriv.k)), TRUE)

\* the components after the branch prefix that are not empty, in order
RECURSIVE NonEmpty(_)
NonEmpty(comps) ==
    IF comps = <<>> THEN <<>>
    ELSE IF Head(comps) = <<>> THEN NonEmpty(Tail(comps))
    ELSE <<Head(comps)>> \o NonEmpty(Tail(comps))

Hops == NonEmpty(Split(SliceFrom(xk.sequence, Len(xk.branch))))

\* an index component: an index below 2^31 (scaled: 2^7), optionally hardened
IsIndexPart(n) ==
    LET digits == IF n[Len(n)] = 39 THEN DropLastN(n, 1) ELSE n
    IN  ParseInt(digits).kind = "ok" /\ ParseInt(digits).val < BIP32_PRIME

HopIndex(n) ==
    IF n[Len(n)] = 39 THEN DigitsValue(DropLastN(n, 1)) + BIP32_PRIME ELSE DigitsValue(n)

\* the child derivations of the hops from left to right, from the node at;
\* ok is lost when a derivation fails or gives a scalar that is no secret
RECURSIVE Walk(_, _)
Walk(hops, at) ==
    IF hops = <<>> \/ ~at.ok THEN at
    ELSE Bind(CKD_priv(at.k, at.c, HopIndex(Head(hops))), LAMBDA child :
            IF child.kind = "raise" \/ get_pubkeys_from_secret(child.k).kind = "raise"
            THEN [at EXCEPT !.ok = FALSE]
            ELSE Walk(Tail(hops), [ok |-> TRUE, k |-> child.k, c |-> child.c,
                                   depth |-> at.depth + 1, parent |-> at.k,
                                   i |-> HopIndex(Head(hops))]))

\* a private derivation the claim speaks of: a valid extended private key, a
\* path that continues the branch by index components, hops that all give
\* valid children, and a depth that fits its byte
DerivationInScope ==
    /\ xk.pc \in {"private", "public"}
    /\ StartsWith(xk.sequence, xk.branch)
    /\ xpub_from_xprv(net, xk.xprv).kind = "ok"
    /\ \A j \in 1..Len(Hops) : IsIndexPart(Hops[j])
    /\ LET d == deserialize_xprv(net, xk.xprv)
       IN  /\ d.depth + Len(Hops) <= 255
           /\ Walk(Hops, [ok |-> TRUE, k |-> d.K_or_k, c |-> d.c, depth |-> d.depth,
                          parent |-> <<>>, i |-> 0]).ok

\* the pair the claim describes for the derivation at hand
DerivedAsClaimed ==
    LET d    == deserialize_xprv(net, xk.xprv)
        last == Walk(Hops, [ok |-> TRUE, k |-> d.K_or_k, c |-> d.c, depth |-> d.depth,
                            parent |-> <<>>, i |-> 0])
    IN  IF Hops = <<>>
        THEN xk.priv = [kind |-> "ok", xprv |-> xk.xprv,
                        xpub |-> xpub_from_xprv(net, xk.xprv).val]
        ELSE /\ xk.priv.kind = "ok"
             /\ LET got    == deserialize_xprv(net, xk.priv.xprv)
                    gotpub == deserialize_xpub(net, xk.priv.xpub)
                    fp     == Slice(hash_160(get_pubkeys_from_secret(last.parent).val), 0, FP_LEN)
                IN  /\ got.kind = "ok" /\ gotpub.kind = "ok"
                    /\ got.xtype = d.xtype /\ gotpub.xtype = d.xtype
                    /\ got.depth = d.depth + Len(Hops) /\ gotpub.depth = got.depth
                    /\ got.fingerprint = fp /\ gotpub.fingerprint = fp
                    /\ got.child_number = NumberToBytes(last.i, IDX_LEN)
                    /\ gotpub.child_number = got.child_number
                    /\ got.c = last.c /\ gotpub.c = last.c
                    /\ got.K_or_k = last.k
                    /\ Ok(gotpub.K_or_k) = get_pubkeys_from_secret(last.k)

(* C13: for every extended private key at depth d and every relative path of
   k >= 0 index components, each optionally hardened, bip32_private_derivation
   applies the child derivations from left to right and returns the pair
   whose depth is d + k, whose fingerprint is the start of hash160 of the
   compressed public key of the parent of the final node and whose child
   index is the index of the last hop, big-endian; when k = 0, with or
   without a trailing slash or empty components, it returns the input node
   unchanged. *)
C13_PrivateDerivation == DerivationInScope => DerivedAsClaimed

\* what holds: the claim for one hop or more and for branch = sequence; with
\* nothing to derive and a sequence that is not the branch, the call raises
DerivationOfHops ==
    DerivationInScope =>
        IF Hops = <<>> /\ xk.branch # xk.sequence THEN xk.priv.kind = "raise"
        ELSE DerivedAsClaimed

\* two hops, the second hardened, from a node at depth 0
DerivationWitness ==
    /\ DerivationInScope /\ xk.pc = "private" /\ Len(Hops) = 2
    /\ Hops[2][Len(Hops[2])] = 39 /\ xk.priv.kind = "ok"
    /\ deserialize_xprv(net, xk.priv.xprv).depth = 2

\* nothing to derive after the branch, which the sequence continues by "/"
C13_TrailingSlashRaises ==
    /\ DerivationInScope /\ xk.pc = "private"
    /\ xk.branch = <<109>> /\ xk.sequence = <<109, 47>> /\ xk.priv.kind = "raise"

-----------------------------------------------------------------------------
(* Extended keys on their own.  A key is serialized under the profile of
   the moment; the profile may change before the text, possibly damaged on
   its way, is handed to deserialize_xkey as a private or a public key. *)

XkeyTypes == {0, 1, 2}
XkeyDepths == {0, 255}
\* a scalar, and a scalar one byte short or long
XkeySecrets == {<<7>>, <<>>, <<7, 7>>}
\* the same for a compressed point
XkeyPoints == {<<2, 7>>, <<2>>, <<2, 7, 7>>}
\* '1' (the zero digit) and '!' (outside the alphabet)
XkeyChars == {49, 33}

InitXkey ==
    /\ net = MainNet
    /\ AES = FALSE
    /\ xk = [pc |-> "start", prv |-> FALSE, xtype |-> 0, depth |-> 0, fingerprint |-> <<>>,
             child_number |-> <<>>, c |-> <<>>, key |-> <<>>, text |-> <<>>, cand |-> <<>>,
             asprv |-> FALSE, res |-> NoXkey]
    /\ codec = Idle /\ adr = Idle /\ sg = Idle /\ ec = Idle

XkeySetTestnet ==
    /\ xk.pc \in {"start", "made"}
    /\ ~net.TESTNET
    /\ net' = set_testnet(net)
    /\ UNCHANGED <<AES, codec, adr, xk, sg, ec>>

XkeySetNolnet ==
    /\ xk.pc = "made"
    /\ ~net.NOLNET
    /\ net' = set_nolnet(net)
    /\ UNCHANGED <<AES, codec, adr, xk, sg, ec>>

\* serialize_xprv(xtype, c, k, depth, fingerprint, child_number)
SerializePrivate ==
    /\ xk.pc = "start"
    /\ \E xtype \in XkeyTypes, depth \in XkeyDepths, k \in XkeySecrets :
          LET t == serialize_xprv(net, xtype, <<9>>, k, depth, <<3>>, <<1>>)
          IN  xk' = [xk EXCEPT !.pc = "made", !.prv = TRUE, !.xtype = xtype, !.depth = depth,
                               !.fingerprint = <<3>>, !.child_number = <<1>>, !.c = <<9>>,
                               !.key = k, !.text = t.val, !.cand = t.val]
    /\ UNCHANGED <<net, AES, codec, adr, sg, ec>>

\* serialize_xpub(xtype, c, cK, depth, fingerprint, child_number)
SerializePublic ==
    /\ xk.pc = "start"
    /\ \E xtype \in XkeyTypes, depth \in XkeyDepths, cK \in XkeyPoints :
          LET t == serialize_xpub(net, xtype, <<9>>, cK, depth, <<3>>, <<1>>)
          IN  xk' = [xk EXCEPT !.pc = "made", !.prv = FALSE, !.xtype = xtype, !.depth = depth,
                               !.fingerprint = <<3>>, !.child_number = <<1>>, !.c = <<9>>,
                               !.key = cK, !.text = t.val, !.cand = t.val]
    /\ UNCHANGED <<net, AES, codec, adr, sg, ec>>

\* one character replaced, the last character dropped, or a character added
DamageXkey ==
    /\ xk.pc = "made"
    /\ \E ch \in XkeyChars :
          \/ \E i \in 1..Len(xk.text) :
                /\ xk.text[i] # ch
                /\ xk' = [xk EXCEPT !.pc = "damaged", !.cand = [xk.text EXCEPT ![i] = ch]]
          \/ xk' = [xk EXCEPT !.pc = "damaged", !.cand = Append(xk.text, ch)]
          \/ xk' = [xk EXCEPT !.pc = "damaged", !.cand = DropLastN(xk.text, 1)]
    /\ UNCHANGED <<net, AES, codec, adr, sg, ec>>

\* deserialize_xkey(xkey, prv)
Deserialize ==
    /\ xk.pc \in {"made", "damaged"}
    /\ \E prv \in BOOLEAN :
          xk' = [xk EXCEPT !.pc = "parsed", !.asprv = prv,
                           !.res = deserialize_xkey(net, xk.cand, prv)]
    /\ UNCHANGED <<net, AES, codec, adr, sg, ec>>

NextXkey ==
    \/ XkeySetTestnet \/ XkeySetNolnet \/ SerializePrivate \/ SerializePublic
    \/ DamageXkey \/ Deserialize

SpecXkey == InitXkey /\ [][NextXkey]_vars

\* the purpose types the active profile recognizes (line 808)
RecognizedTypes == IF net.TESTNET THEN {0, 1} ELSE {0}

\* the text decodes, its checksum verifies, the buffer has the length of an
\* extended key and starts with the header for prv plus a recognized type
AcceptableXkey(text, prv) ==
    LET b == DecodeBase58Check(text)
    IN  /\ b.kind = "bytes"
        /\ Len(b.val) = XKEY_LEN
        /\ \E t \in RecognizedTypes :
              Slice(b.val, 0, HDR_LEN)
                 = NumberToBytes((IF prv THEN net.XPRV_HEADER ELSE net.XPUB_HEADER) + t, HDR_LEN)

(* C9: deserialize_xkey(xkey, prv) returns a value only when the decoded,
   checksum-verified buffer has the length of an extended key (78 bytes) and
   its header is the private (prv) or public (not prv) header of the active
   profile plus a recognized purpose type, and fails for every other input: a
   text whose checksum does not verify, a public key handed in as private, a
   private key handed in as public.  For an accepted text that serialize_xprv
   or serialize_xpub produced it returns the fields that were serialized. *)
C9_Deserialize ==
    xk.pc = "parsed" =>
        /\ (xk.res.kind = "ok") = AcceptableXkey(xk.cand, xk.asprv)
        /\ xk.res.kind \in {"ok", "raise"}
        /\ (xk.cand = xk.text /\ xk.asprv # xk.prv) => xk.res.kind = "raise"
        /\ (xk.cand = xk.text /\ xk.res.kind = "ok") =>
               xk.res = [kind |-> "ok", xtype |-> xk.xtype, depth |-> xk.depth,
                         fingerprint |-> xk.fingerprint, child_number |-> xk.child_number,
                         c |-> xk.c, K_or_k |-> xk.key]

\* a private key of purpose type 1 comes back under the test profile
C9_Witness ==
    /\ xk.pc = "parsed" /\ xk.cand = xk.text /\ xk.prv /\ xk.asprv /\ xk.xtype = 1
    /\ net.TESTNET /\ xk.depth = 255 /\ xk.res.kind = "ok" /\ xk.res.K_or_k = <<7>>

\* a genuine public key handed in as a private key is refused
C9_WitnessWrongKind ==
    /\ xk.pc = "parsed" /\ xk.cand = xk.text /\ ~xk.prv /\ xk.asprv
    /\ AcceptableXkey(xk.cand, FALSE) /\ xk.res.kind = "raise"

\* a checksum that does not verify, a length that is off, a type that is
\* not recognized
C9_WitnessChecksum ==
    xk.pc = "parsed" /\ DecodeBase58Check(xk.cand).kind = "None" /\ xk.res.kind = "raise"

C9_WitnessLength ==
    /\ xk.pc = "parsed" /\ DecodeBase58Check(xk.cand).kind = "bytes"
    /\ Len(DecodeBase58Check(xk.cand).val) = XKEY_LEN + 1 /\ xk.res.kind = "raise"

C9_WitnessType ==
    /\ xk.pc = "parsed" /\ xk.cand = xk.text /\ xk.prv = xk.asprv /\ xk.xtype = 1
    /\ ~net.TESTNET /\ Len(xk.key) = (IF xk.prv THEN COORD_LEN ELSE 1 + COORD_LEN)
    /\ xk.res.kind = "raise"

-----------------------------------------------------------------------------
(* The profile under any sequence of set_testnet() and set_nolnet() calls,
   with extended keys serialized and parsed in between. *)

\* set_testnet(), at any time and any number of times
SetTestnet ==
    /\ xk.pc \in {"start", "made"}
    /\ net' = set_testnet(net)
    /\ UNCHANGED <<AES, codec, adr, xk, sg, ec>>

\* set_nolnet(), at any time and any number of times
SetNolnet ==
    /\ xk.pc \in {"start", "made"}
    /\ net' = set_nolnet(net)
    /\ UNCHANGED <<AES, codec, adr, xk, sg, ec>>

NextProfile == SetTestnet \/ SetNolnet \/ SerializePrivate \/ SerializePublic \/ Deserialize

SpecProfile == InitXkey /\ [][NextProfile]_vars

\* the constants are those that set_testnet assigns
TestnetConstants ==
    /\ net.ADDRTYPE_P2PKH = 111 /\ net.ADDRTYPE_P2SH = 196 /\ net.ADDRTYPE_P2WPKH = 3
    /\ net.XPRV_HEADER = 70615956 /\ net.XPUB_HEADER = 70617039
    /\ net.HEADERS_URL = "https://headers.electrum.org/testnet_headers"

(* C14: after any sequence of set_testnet() and set_nolnet() calls, TESTNET
   is true exactly when the address types, the key headers and HEADERS_URL
   hold the testnet values, at most one of TESTNET and NOLNET is true, and
   deserialize_xkey accepts purpose type 1 only when the header constants are
   the testnet ones. *)
C14_ProfileConsistent ==
    /\ net.TESTNET <=> TestnetConstants
    /\ ~(net.TESTNET /\ net.NOLNET)
    /\ (xk.pc = "parsed" /\ xk.res.kind = "ok" /\ xk.res.xtype = 1) =>
          (net.XPRV_HEADER = 70615956 /\ net.XPUB_HEADER = 70617039)

\* what the calls do give: one of five profiles, the flags never go back
ProfileReachable ==
    /\ net \in ReachableProfiles
    /\ TestnetConstants => net.TESTNET

\* set_testnet() and then set_nolnet(): both flags with the main constants,
\* and a key of purpose type 1 under the main header is accepted
C14_BothFlags ==
    /\ net.TESTNET /\ net.NOLNET /\ ~TestnetConstants
    /\ xk.pc = "parsed" /\ xk.asprv /\ xk.res.kind = "ok" /\ xk.res.xtype = 1

-----------------------------------------------------------------------------
(* ECDSA signing, lines 620-649, with the ecdsa package underneath. *)

NoSignature == [kind |-> "raise", r |-> 0, s |-> 0]

\* curve.baselen, the longest digest the curve signs: 32 bytes, as long as a
\* sha256 digest, and scaled with it
BASELEN == SHA256_LEN

\* ecdsa.ecdsa.Private_key.sign(hash, random_k)
Private_key_sign(secret, hash, random_k) ==
    LET k  == random_k % Order
        p1 == GMul(k)
    IN  IF p1 = INFINITY THEN NoSignature
        ELSE LET r == p1.x % Order
             IN  IF r = 0 THEN NoSignature
                 ELSE LET s == (inverse_mod(k, Order) * ((hash + ((secret * r) % Order)) % Order))
                                  % Order
                      IN  IF s = 0 THEN NoSignature
                          ELSE [kind |-> "ok", r |-> r, s |-> s]

\* ecdsa.SigningKey.sign_number(number, entropy, k) with k given
SigningKey_sign_number(secret, number, k) ==
    IF k < 1 \/ k >= Order THEN NoSignature ELSE Private_key_sign(secret, number, k)

\* sign_number with the comparison of line 628 one off
sign_number_above_half(secret, number, k) ==
    Bind(SigningKey_sign_number(secret, number, k), LAMBDA sig :
        IF sig.kind = "raise" THEN sig
        ELSE IF sig.s > Order \div 2 + 1 THEN [sig EXCEPT !.s = Order - sig.s]
        ELSE sig)

\* lines 623-630, MySigningKey.sign_number
sign_number(secret, number, k) ==
    Bind(SigningKey_sign_number(secret, number, k), LAMBDA sig :
        IF sig.kind = "raise" THEN sig
        ELSE IF sig.s > Order \div 2 THEN [sig EXCEPT !.s = Order - sig.s]
        ELSE sig)

\* ecdsa.rfc6979.generate_k: a scalar in 1..order-1 that the secret and the
\* digest determine
generate_k(secexp, digest) ==
    1 + (string_to_number(Digest(5, <<secexp>> \o digest, 1)) % (Order - 1))

\* ecdsa.util.sigencode_string and sigdecode_string
sigencode_string(r, s) == number_to_string(r).val \o number_to_string(s).val

sigdecode_string(sig) ==
    IF Len(sig) # 2 * COORD_LEN THEN NoSignature
    ELSE [kind |-> "ok", r |-> string_to_number(Slice(sig, 0, COORD_LEN)),
          s |-> string_to_number(SliceFrom(sig, COORD_LEN))]

\* ecdsa.ecdsa.Public_key.verifies(hash, signature)
verifies(point, hash, r, s) ==
    IF r < 1 \/ r > Order - 1 \/ s < 1 \/ s > Order - 1 THEN FALSE
    ELSE LET c  == inverse_mod(s, Order)
             u1 == (hash * c) % Order
             u2 == (r * c) % Order
             xy == PointAdd(GMul(u1), PointMul(point, u2))
         IN  xy # INFINITY /\ xy.x % Order = r

\* ecdsa.VerifyingKey.verify_digest: True, or raises (a digest longer than
\* the curve, a signature of another length, BadSignatureError)
verify_digest(point, signature, digest) ==
    Bind(sigdecode_string(signature), LAMBDA sig :
        IF Len(digest) > BASELEN \/ digest = <<>> \/ sig.kind = "raise" THEN Raised
        ELSE IF verifies(point, string_to_number(digest), sig.r, sig.s) THEN Ok(TRUE)
        ELSE Raised)

\* sign_digest_deterministic with another sign_number underneath
SignDigestWith(secret, msg_hash, sig) ==
    IF sig.kind = "raise" THEN Raised
    ELSE Bind(sigencode_string(sig.r, sig.s), LAMBDA signature :
            IF verify_digest(GMul(secret), signature, msg_hash).kind = "raise"   \* line 648
            THEN Raised ELSE Ok(signature))

\* lines 644-649, EC_KEY.sign, for the key EC_KEY(k); from_secret_exponent
\* asserts 1 <= secexp < order
EC_KEY_sign(k, msg_hash) ==
    Bind(EC_KEY(k), LAMBDA key :
        IF key.kind = "raise" \/ key.secret < 1 \/ key.secret >= Order THEN Raised
        ELSE IF Len(msg_hash) > BASELEN \/ msg_hash = <<>> THEN Raised
        ELSE SignDigestWith(key.secret, msg_hash,
                            sign_number(key.secret, string_to_number(msg_hash),
                                        generate_k(key.secret, msg_hash))))

SignNumbers == {0, 1, 17, 30, 31, 200, 255}
SignDigests == {<<0>>, <<1>>, <<30>>, <<31>>, <<77>>, <<200>>, <<255>>, <<1, 2>>, <<1, 2, 3>>}

InitSign ==
    /\ net = MainNet
    /\ AES = FALSE
    /\ sg = [pc |-> "start", secret |-> 0, number |-> 0, k |-> 0, plain |-> NoSignature,
             out |-> NoSignature, key |-> <<>>, msg_hash |-> <<>>, signature |-> Raised,
             checked |-> Raised]
    /\ codec = Idle /\ adr = Idle /\ xk = Idle /\ ec = Idle

\* MySigningKey.sign_number(number, k=k); plain is what ecdsa.SigningKey gives
SignNumber ==
    /\ sg.pc = "start"
    /\ \E secret \in 1..(Order - 1), number \in SignNumbers, k \in 0..Order :
          sg' = [sg EXCEPT !.pc = "number_signed", !.secret = secret, !.number = number,
                           !.k = k,
                           !.plain = SigningKey_sign_number(secret, number, k),
                           !.out = sign_number(secret, number, k)]
    /\ UNCHANGED <<net, AES, codec, adr, xk, ec>>

\* EC_KEY(k).sign(msg_hash)
Sign ==
    /\ sg.pc = "start"
    /\ \E k \in ChildSecrets, msg_hash \in SignDigests :
          sg' = [sg EXCEPT !.pc = "signed", !.key = k, !.msg_hash = msg_hash,
                           !.signature = EC_KEY_sign(k, msg_hash)]
    /\ UNCHANGED <<net, AES, codec, adr, xk, ec>>

\* public_key.verify_digest(signature, msg_hash) by the receiver
VerifySigned ==
    /\ sg.pc = "signed" /\ sg.signature.kind = "ok"
    /\ sg' = [sg EXCEPT !.pc = "verified",
                        !.checked = verify_digest(EC_KEY(sg.key).pt, sg.signature.val,
                                                  sg.msg_hash)]
    /\ UNCHANGED <<net, AES, codec, adr, xk, ec>>

NextSign == SignNumber \/ Sign \/ VerifySigned

SpecSign == InitSign /\ [][NextSign]_vars

(* C5: every signature of MySigningKey.sign_number, and so of EC_KEY.sign,
   has s <= order/2: an underlying s above order//2 is replaced by order - s,
   any other s is returned as it is, and r is never changed. *)
C5_LowS ==
    /\ sg.pc = "number_signed" =>
          /\ sg.out.kind = sg.plain.kind
          /\ sg.out.kind = "ok" =>
                /\ 2 * sg.out.s <= Order
                /\ sg.out.r = sg.plain.r
                /\ sg.out.s = (IF sg.plain.s > Order \div 2 THEN Order - sg.plain.s
                               ELSE sg.plain.s)
    /\ (sg.pc \in {"signed", "verified"} /\ sg.signature.kind = "ok") =>
          2 * sigdecode_string(sg.signature.val).s <= Order

\* an s in the upper half was replaced, and EC_KEY.sign returned a signature
C5_Witness ==
    /\ sg.pc = "number_signed" /\ sg.out.kind = "ok"
    /\ sg.plain.s > Order \div 2 /\ sg.out.s = Order - sg.plain.s

C5_WitnessSign ==
    /\ sg.pc = "verified" /\ sg.checked = Ok(TRUE)
    /\ generate_k(EC_KEY(sg.key).secret, sg.msg_hash) # 0
    /\ SigningKey_sign_number(EC_KEY(sg.key).secret, string_to_number(sg.msg_hash),
                              generate_k(EC_KEY(sg.key).secret, sg.msg_hash)).s > Order \div 2

-----------------------------------------------------------------------------
(* Signed messages, lines 164-184 and 507-527: the buffer that is hashed.  A
   hexadecimal text is a sequence of the codes of '0'..'9' and 'a'..'f'; the
   integer handed to var_int is unbounded and kept as its base-256 digits. *)

HexDigit(d) == IF d < 10 THEN 48 + d ELSE 87 + d

\* the value of a hexadecimal character of either case, -1 for another
HexVal(c) ==
    IF c \in 48..57 THEN c - 48
    ELSE IF c \in 97..102 THEN c - 87
    ELSE IF c \in 65..70 THEN c - 55
    ELSE 0 - 1

\* lib.util.bh2u: two characters for a byte
RECURSIVE bh2u(_)
bh2u(x) ==
    IF x = <<>> THEN <<>>
    ELSE <<HexDigit(Head(x) \div 16), HexDigit(Head(x) % 16)>> \o bh2u(Tail(x))

\* lib.util.bfh (bytes.fromhex): raises for an odd number of characters and
\* for a character that is not hexadecimal
RECURSIVE bfh(_)
bfh(s) ==
    IF s = <<>> THEN Ok(<<>>)
    ELSE IF Len(s) = 1 \/ HexVal(s[1]) < 0 \/ HexVal(s[2]) < 0 THEN Raised
    ELSE Bind(bfh(SliceFrom(s, 2)), LAMBDA rest :
            IF rest.kind = "raise" THEN Raised
            ELSE Ok(<<HexVal(s[1]) * 16 + HexVal(s[2])>> \o rest.val))

\* hex(i)[2:] for i >= 0: no zero in front, '0' for 0
hex(i) ==
    IF i = <<>> THEN <<48>>
    ELSE LET s == bh2u(Reverse(i)) IN IF s[1] = 48 THEN Tail(s) ELSE s

\* lines 164-165
rev_hex(s) ==
    Bind(bfh(s), LAMBDA b : IF b.kind = "raise" THEN Raised ELSE Ok(bh2u(Reverse(b.val))))

\* lines 168-172: a text of 2*length characters or more
int_to_hex(i, length) ==
    LET s == hex(i)
    IN  rev_hex((IF 2 * length > Len(s) THEN Repeat(48, 2 * length - Len(s)) ELSE <<>>) \o s)

\* lines 175-184: i < 0xfd, i <= 0xffff, i <= 0xffffffff on the digits of i
var_int(i) ==
    IF Len(i) = 0 \/ (Len(i) = 1 /\ i[1] < 253) THEN int_to_hex(i, 1)
    ELSE Bind(IF Len(i) <= 2 THEN <<<<102, 100>>, int_to_hex(i, 2)>>
              ELSE IF Len(i) <= 4 THEN <<<<102, 101>>, int_to_hex(i, 4)>>
              ELSE <<<<102, 102>>, int_to_hex(i, 8)>>, LAMBDA m :
            IF m[2].kind = "raise" THEN Raised ELSE Ok(m[1] \o m[2].val))

\* b"\x18Bitcoin Signed Message:\n"
MessagePrefix ==
    <<24, 66, 105, 116, 99, 111, 105, 110, 32, 83, 105, 103, 110, 101, 100, 32,
      77, 101, 115, 115, 97, 103, 101, 58, 10>>

\* len(x) as a Python integer
BigLen(x) == StripHigh(<<Len(x) % 256, Len(x) \div 256>>)

\* lines 507-510: the characters of the text var_int returns are taken as
\* bytes (encode('ascii'))
msg_magic(message) ==
    Bind(var_int(BigLen(message)), LAMBDA varint :
        IF varint.kind = "raise" THEN Raised
        ELSE Ok(MessagePrefix \o varint.val \o message))

\* lines 296-306: the P2PKH address of a serialized public key
public_key_to_p2pkh(g, public_key) ==
    hash_160_to_bc_address(g, hash_160(public_key), g.ADDRTYPE_P2PKH)

(* msqr.modular_sqrt(a, p), called at line 591, for a prime p = 3 (mod 4) as
   the field primes of secp256k1 and of the stand-in are: a root of a, or 0
   when a is 0 or has no root. *)
modular_sqrt(a, p) ==
    IF a % p = 0 \/ ModExp(a, (p - 1) \div 2, p) # 1 THEN 0
    ELSE ModExp(a, (p + 1) \div 4, p)

NoKey == [kind |-> "raise", pt |-> INFINITY]

(* Point.__add__ where a coordinate may be above the field prime (line 587
   gives x = r + order): two points whose x differ by a multiple of the prime
   are not taken for the same, and inverse_mod asserts. *)
PointAddRaw(P, Q) ==
    IF P # INFINITY /\ Q # INFINITY /\ P.x # Q.x /\ (P.x - Q.x) % CurveP = 0 THEN NoKey
    ELSE [kind |-> "ok", pt |-> PointAdd(P, Q)]

\* lines 576-601, MyVerifyingKey.from_signature: the key, or raises
from_signature(sig, recid, h) ==
    Bind(sigdecode_string(sig), LAMBDA rs :
        IF rs.kind = "raise" THEN NoKey
        ELSE LET x     == rs.r + (recid \div 2) * Order
                 alpha == (x * x * x + CurveA * x + CurveB) % CurveP
                 beta  == modular_sqrt(alpha, CurveP)
                 y     == IF (beta - recid) % 2 = 0 THEN beta ELSE CurveP - beta
             IN  Bind(MakePoint(x, y), LAMBDA R :
                    IF R.kind # "ok" THEN NoKey
                    ELSE IF rs.r % Order = 0 THEN NoKey          \* inverse_mod(r, order)
                    ELSE LET minus_e == (0 - string_to_number(h)) % Order
                             inv_r   == inverse_mod(rs.r, Order)
                         IN  Bind(PointAddRaw(PointMul(R.pt, rs.s), GMul(minus_e)), LAMBDA sum :
                                IF sum.kind = "raise" THEN NoKey
                                ELSE Public_key(PointMul(sum.pt, inv_r)))))

SIG_LEN == 1 + 2 * COORD_LEN    \* a signature with its header byte: 65, scaled

NoRecovered == [kind |-> "raise", pt |-> INFINITY, compressed |-> FALSE]

\* lines 604-617
pubkey_from_signature(sig, message) ==
    IF Len(sig) # SIG_LEN THEN NoRecovered
    ELSE IF sig[1] < 27 \/ sig[1] >= 35 THEN NoRecovered
    ELSE LET compressed == sig[1] >= 31
             recid      == IF compressed THEN sig[1] - 4 - 27 ELSE sig[1] - 27
         IN  Bind(msg_magic(message), LAMBDA magic :
                IF magic.kind = "raise" THEN NoRecovered
                ELSE Bind(Hash(magic.val), LAMBDA h :
                     Bind(from_signature(Tail(sig), recid, h), LAMBDA key :
                        [kind |-> key.kind, pt |-> key.pt, compressed |-> compressed])))

\* lines 664-672, EC_KEY.verify_message of the key whose point is own:
\* returns None or raises
EC_KEY_verify_message(own, sig, message) ==
    Bind(pubkey_from_signature(sig, message), LAMBDA public_key :
        IF public_key.kind = "raise" THEN Raised
        ELSE IF point_to_ser(public_key.pt, public_key.compressed)
                   # point_to_ser(own, public_key.compressed) THEN Raised
        ELSE Bind(Hash(msg_magic(message).val), LAMBDA h :
             Bind(verify_digest(public_key.pt, Tail(sig), h), LAMBDA checked :
                IF checked.kind = "raise" THEN Raised ELSE Ok(<<>>))))

\* the loop of lines 654-662 from the candidate i on
RECURSIVE SignLoop(_, _, _, _, _)
SignLoop(own, signature, message, is_compressed, i) ==
    IF i >= 4 THEN Raised
    ELSE Bind(<<27 + i + (IF is_compressed THEN 4 ELSE 0)>> \o signature, LAMBDA sig :
            IF EC_KEY_verify_message(own, sig, message).kind = "ok" THEN Ok(sig)
            ELSE SignLoop(own, signature, message, is_compressed, i + 1))

\* sign_message that returns the first candidate without verifying it
sign_message_first_candidate(k, message, is_compressed) ==
    Bind(msg_magic(message), LAMBDA magic :
        IF magic.kind = "raise" THEN Raised
        ELSE Bind(Hash(magic.val), LAMBDA h :
             Bind(EC_KEY_sign(k, h), LAMBDA signature :
                IF signature.kind = "raise" THEN Raised
                ELSE Ok(<<27 + (IF is_compressed THEN 4 ELSE 0)>> \o signature.val))))

\* lines 651-662, EC_KEY.sign_message of the key EC_KEY(k)
sign_message(k, message, is_compressed) ==
    Bind(msg_magic(message), LAMBDA magic :
        IF magic.kind = "raise" THEN Raised
        ELSE Bind(Hash(magic.val), LAMBDA h :
             Bind(EC_KEY_sign(k, h), LAMBDA signature :
                IF signature.kind = "raise" THEN Raised
                ELSE SignLoop(EC_KEY(k).pt, signature.val, message, is_compressed, 0))))

\* lines 513-527, verify_message of the module: True or False
verify_message(g, address, sig, message) ==
    Bind(pubkey_from_signature(sig, message), LAMBDA public_key :
        IF public_key.kind = "raise" THEN FALSE
        ELSE Bind(point_to_ser(public_key.pt, public_key.compressed), LAMBDA pubkey :
                IF pubkey.kind = "raise" THEN FALSE
                ELSE Bind(public_key_to_p2pkh(g, pubkey.val), LAMBDA addr :
                        IF addr.kind = "raise" \/ address # addr.val THEN FALSE
                        ELSE Bind(Hash(msg_magic(message).val), LAMBDA h :
                                verify_digest(public_key.pt, Tail(sig), h).kind = "ok"))))

-----------------------------------------------------------------------------
(* Signing and verifying messages: var_int on its own, msg_magic and the
   digest of a message, EC_KEY(k).sign_message and verify_message against the
   address of the signer. *)

MaxMessage == 2     \* longest of the short messages

\* 0, 1, 0xfc, 0xfd, 0x100, 0xffff, 0x10000, 0x12345678, 0xffffffff, 2^32, 2^56
VarIntInputs ==
    {<<>>, <<1>>, <<252>>, <<253>>, <<0, 1>>, <<255, 255>>, <<0, 0, 1>>, <<120, 86, 52, 18>>,
     <<255, 255, 255, 255>>, <<0, 0, 0, 0, 1>>, <<0, 0, 0, 0, 0, 0, 0, 1>>}

\* the short messages, and one of 0xfd bytes
Messages == SeqsUpTo({0, 65}, MaxMessage) \cup {Repeat(97, 253)}

MessageSecrets == {<<k>> : k \in 1..(Order - 1)}

NoMessage ==
    [pc |-> "start", i |-> <<>>, varint |-> Raised, message |-> <<>>, magic |-> Raised,
     digest |-> <<>>, key |-> <<>>, is_compressed |-> FALSE, signature |-> Raised,
     sig |-> Raised, address |-> Raised, verified |-> FALSE]

InitMessage ==
    /\ net = MainNet
    /\ AES = FALSE
    /\ sg = NoMessage
    /\ codec = Idle /\ adr = Idle /\ xk = Idle /\ ec = Idle

\* set_testnet() before anything is signed
MessageSetTestnet ==
    /\ sg.pc = "start" /\ ~net.TESTNET
    /\ net' = set_testnet(net)
    /\ UNCHANGED <<AES, codec, adr, xk, sg, ec>>

VarInt ==
    /\ sg.pc = "start"
    /\ \E i \in VarIntInputs :
          sg' = [sg EXCEPT !.pc = "varint", !.i = i, !.varint = var_int(i)]
    /\ UNCHANGED <<net, AES, codec, adr, xk, ec>>

\* msg_magic(message) and the digest Hash(msg_magic(message)) of lines 653, 616, 669
MsgMagic ==
    /\ sg.pc = "start"
    /\ \E message \in Messages :
          LET magic == msg_magic(message)
          IN  sg' = [sg EXCEPT !.pc = "magic", !.message = message, !.magic = magic,
                               !.digest = Hash(magic.val)]
    /\ UNCHANGED <<net, AES, codec, adr, xk, ec>>

\* EC_KEY(k).sign_message(message, is_compressed); signature is what
\* EC_KEY.sign gave for the digest
SignMessage ==
    /\ sg.pc = "start"
    /\ \E k \in MessageSecrets, message \in Messages, is_compressed \in BOOLEAN :
          sg' = Bind(Hash(msg_magic(message).val), LAMBDA digest :
                    [sg EXCEPT !.pc = "msg_signed", !.key = k, !.message = message,
                               !.is_compressed = is_compressed, !.digest = digest,
                               !.signature = EC_KEY_sign(k, digest),
                               !.sig = sign_message(k, message, is_compressed)])
    /\ UNCHANGED <<net, AES, codec, adr, xk, ec>>

\* verify_message(address, sig, message) with the address of the signer's key
VerifyMessage ==
    /\ sg.pc = "msg_signed" /\ sg.sig.kind = "ok"
    /\ LET address == public_key_to_p2pkh(net, GetPubKey(EC_KEY(sg.key).pt, sg.is_compressed).val)
       IN  sg' = [sg EXCEPT !.pc = "msg_verified", !.address = address,
                            !.verified = verify_message(net, address.val, sg.sig.val, sg.message)]
    /\ UNCHANGED <<net, AES, codec, adr, xk, ec>>

NextMessage == MessageSetTestnet \/ VarInt \/ MsgMagic \/ SignMessage \/ VerifyMessage

SpecMessage == InitMessage /\ [][NextMessage]_vars

\* i as n bytes, least significant first
LittleEndian(i, n) == i \o Repeat(0, n - Len(i))

\* the variable-length integer as the claim describes it, for i < 2^64
VarIntBytes(i) ==
    IF Len(i) = 0 \/ (Len(i) = 1 /\ i[1] < 253) THEN <<BigSmall(i)>>
    ELSE IF Len(i) <= 2 THEN <<253>> \o LittleEndian(i, 2)
    ELSE IF Len(i) <= 4 THEN <<254>> \o LittleEndian(i, 4)
    ELSE <<255>> \o LittleEndian(i, 8)

(* C11: msg_magic(message) is the magic string, then the variable-length
   integer of len(message) as raw bytes (one byte below 0xfd, else a marker
   0xfd, 0xfe or 0xff and the length in 2, 4 or 8 bytes, little-endian), then
   the message; the digest signed and verified is the double hash of that
   buffer. *)
C11_MagicBuffer ==
    sg.pc = "magic" =>
        /\ sg.magic = Ok(MessagePrefix \o VarIntBytes(BigLen(sg.message)) \o sg.message)
        /\ sg.digest = Hash(MessagePrefix \o VarIntBytes(BigLen(sg.message)) \o sg.message)

\* what the buffer holds: the hexadecimal text of those bytes, two
\* characters for each, and the digest is the double hash of the buffer
MagicCarriesHexText ==
    /\ sg.pc = "varint" => sg.varint = Ok(bh2u(VarIntBytes(sg.i)))
    /\ sg.pc = "magic" =>
          /\ sg.magic = Ok(MessagePrefix \o bh2u(VarIntBytes(BigLen(sg.message))) \o sg.message)
          /\ sg.digest = Hash(sg.magic.val)

\* a message of 0xfd bytes: the buffer holds 'fdfd00', six bytes, after the prefix
MagicHexTextWitness ==
    /\ sg.pc = "magic" /\ Len(sg.message) = 253
    /\ Slice(sg.magic.val, Len(MessagePrefix), Len(MessagePrefix) + 6)
          = <<102, 100, 102, 100, 48, 48>>

\* the recovery ids whose candidate verifies: the key recovered from the
\* signature is the signer's and the signature verifies under it
Candidates ==
    IF sg.signature.kind = "raise" THEN {}
    ELSE {i \in 0..3 :
            LET recovered == from_signature(sg.signature.val, i, sg.digest)
                rs        == sigdecode_string(sg.signature.val)
            IN  /\ recovered.kind = "ok"
                /\ recovered.pt = EC_KEY(sg.key).pt
                /\ verifies(recovered.pt, string_to_number(sg.digest), rs.r, rs.s)}

Least(S) == CHOOSE i \in S : \A j \in S : i <= j

(* C12: sign_message returns the signature of EC_KEY.sign after a header byte
   27 + i + (4 if is_compressed else 0), SIG_LEN bytes in all, where i is the
   smallest recovery id in 0..3 whose recovered key is the signer's and
   verifies; it raises only if no candidate verifies; and verify_message with
   the address of the signer's key, the signature and the message is True. *)
C12_SignMessage ==
    /\ (sg.pc \in {"msg_signed", "msg_verified"} /\ sg.sig.kind = "ok") =>
          /\ Candidates # {}
          /\ Len(sg.sig.val) = SIG_LEN
          /\ Tail(sg.sig.val) = sg.signature.val
          /\ sg.sig.val[1] = 27 + Least(Candidates) + (IF sg.is_compressed THEN 4 ELSE 0)
    /\ (sg.pc = "msg_signed" /\ sg.sig.kind = "raise") => Candidates = {}
    /\ sg.pc = "msg_verified" =>
          LET recovered == pubkey_from_signature(sg.sig.val, sg.message)
          IN  /\ recovered.kind = "ok"
              /\ public_key_to_p2pkh(net, point_to_ser(recovered.pt, recovered.compressed).val)
                    = sg.address
              /\ sg.verified = TRUE

\* a signature whose recovery id is not 0, verified against the address
C12_Witness ==
    /\ sg.pc = "msg_verified" /\ sg.verified = TRUE
    /\ sg.sig.val[1] \notin {27, 31}

\* the point of the signature has an x at or above the order: recovery id 2 or 3
C12_WitnessHighX == sg.pc = "msg_verified" /\ sg.verified /\ sg.sig.val[1] \in {29, 30, 33, 34}

\* whenever EC_KEY.sign returned a signature, one candidate verifies
LoopNeverExhausted ==
    sg.pc = "msg_signed" => (sg.sig.kind = "raise" <=> sg.signature.kind = "raise")

-----------------------------------------------------------------------------
(* base64, the symmetric cipher and ECIES, lines 90-124 and 677-718. *)

\* 'A'..'Z', 'a'..'z', '0'..'9', '+', '/'
b64chars ==
    [i \in 1..64 |-> IF i <= 26 THEN 64 + i
                     ELSE IF i <= 52 THEN 96 + (i - 26)
                     ELSE IF i <= 62 THEN 47 + (i - 52)
                     ELSE IF i = 63 THEN 43 ELSE 47]

\* base64.b64encode: three bytes give four characters, '=' fills the last group
RECURSIVE b64encode(_)
b64encode(b) ==
    IF b = <<>> THEN <<>>
    ELSE IF Len(b) = 1
    THEN <<b64chars[b[1] \div 4 + 1], b64chars[(b[1] % 4) * 16 + 1], 61, 61>>
    ELSE IF Len(b) = 2
    THEN <<b64chars[b[1] \div 4 + 1], b64chars[(b[1] % 4) * 16 + b[2] \div 16 + 1],
           b64chars[(b[2] % 16) * 4 + 1], 61>>
    ELSE <<b64chars[b[1] \div 4 + 1], b64chars[(b[1] % 4) * 16 + b[2] \div 16 + 1],
           b64chars[(b[2] % 16) * 4 + b[3] \div 64 + 1], b64chars[(b[3] % 64) + 1]>>
         \o b64encode(SliceFrom(b, 3))

\* the characters of the text that belong to the alphabet or are '='
RECURSIVE B64Filter(_)
B64Filter(t) ==
    IF t = <<>> THEN <<>>
    ELSE IF Head(t) = 61 \/ Find(b64chars, Head(t)) >= 0
         THEN <<Head(t)>> \o B64Filter(Tail(t))
         ELSE B64Filter(Tail(t))

\* groups of four characters; '=' only at the end of the last group
RECURSIVE B64Groups(_)
B64Groups(t) ==
    IF t = <<>> THEN Ok(<<>>)
    ELSE IF Len(t) < 4 \/ t[1] = 61 \/ t[2] = 61 THEN Raised
    ELSE LET d1 == Find(b64chars, t[1])
             d2 == Find(b64chars, t[2])
             d3 == Find(b64chars, t[3])
             d4 == Find(b64chars, t[4])
         IN  IF t[3] = 61
             THEN IF t[4] = 61 /\ Len(t) = 4 THEN Ok(<<d1 * 4 + d2 \div 16>>) ELSE Raised
             ELSE IF t[4] = 61
             THEN IF Len(t) = 4
                  THEN Ok(<<d1 * 4 + d2 \div 16, (d2 % 16) * 16 + d3 \div 4>>)
                  ELSE Raised
             ELSE Bind(B64Groups(SliceFrom(t, 4)), LAMBDA rest :
                     IF rest.kind = "raise" THEN Raised
                     ELSE Ok(<<d1 * 4 + d2 \div 16, (d2 % 16) * 16 + d3 \div 4,
                               (d3 % 4) * 64 + d4>> \o rest.val))

\* base64.b64decode: foreign characters are dropped, wrong padding raises
b64decode(t) == B64Groups(B64Filter(t))

BLOCK == 2          \* the AES block, the iv and the AES-128 key: 16 bytes, scaled
MAGIC == <<66, 73, 69, 49>>     \* b'BIE1'
ECIES_MIN == Len(MAGIC) + 1 + COORD_LEN + BLOCK + SHA256_LEN   \* 85 in the code

\* hashlib.sha512(x).digest(): iv | key_e | key_m
sha512(x) == Digest(4, x, 2 * BLOCK + SHA256_LEN)

\* hmac.new(key, msg, hashlib.sha256).digest()
hmac_sha256(key, msg) == Digest(6, key \o <<Len(key)>> \o msg, SHA256_LEN)

(* The block cipher stand-in: a keyed permutation of a block, byte by byte
   y = 3 * x + k (mod 256), undone by x = 171 * (y - k); CBC chains with
   addition modulo 256 in the place of XOR. *)
BlockAdd(a, b) == [j \in 1..BLOCK |-> (a[j] + b[j]) % 256]
BlockSub(a, b) == [j \in 1..BLOCK |-> (a[j] + 256 - b[j]) % 256]
BlockEncrypt(key, x) == [j \in 1..BLOCK |-> (3 * x[j] + key[j]) % 256]
BlockDecrypt(key, y) == [j \in 1..BLOCK |-> (171 * ((y[j] + 256 - key[j]) % 256)) % 256]

RECURSIVE CbcEncrypt(_, _, _)
CbcEncrypt(key, prev, data) ==
    IF data = <<>> THEN <<>>
    ELSE Bind(BlockEncrypt(key, BlockAdd(Slice(data, 0, BLOCK), prev)), LAMBDA c :
            c \o CbcEncrypt(key, c, SliceFrom(data, BLOCK)))

RECURSIVE CbcDecrypt(_, _, _)
CbcDecrypt(key, prev, data) ==
    IF data = <<>> THEN <<>>
    ELSE BlockSub(BlockDecrypt(key, Slice(data, 0, BLOCK)), prev)
         \o CbcDecrypt(key, Slice(data, 0, BLOCK), SliceFrom(data, BLOCK))

NoBytes == [kind |-> "raise", val |-> <<>>, cipher_run |-> FALSE]

(* lines 95-108.  With Cryptodome (aes), line 101 adds a str to bytes and
   raises TypeError; without, pyaes pads with PKCS7 and encrypts. *)
aes_encrypt_with_iv(aes, key, iv, data) ==
    IF aes THEN Raised
    ELSE IF Len(key) # BLOCK \/ Len(iv) # BLOCK THEN Raised
    ELSE LET padlen == BLOCK - (Len(data) % BLOCK)
         IN  Ok(CbcEncrypt(key, iv, data \o Repeat(padlen, padlen)))

(* lines 110-124.  With Cryptodome, the cipher runs and line 115 takes ord
   of an int, TypeError; without, pyaes decrypts and strips the padding:
   the length must be a multiple of the block, the last byte at most the
   block, and that many bytes are dropped (none kept when it is 0). *)
aes_decrypt_with_iv(aes, key, iv, data) ==
    IF Len(key) # BLOCK \/ Len(iv) # BLOCK THEN NoBytes
    ELSE IF aes THEN [kind |-> "raise", val |-> <<>>, cipher_run |-> TRUE]
    ELSE IF data = <<>> \/ Len(data) % BLOCK # 0
         THEN [kind |-> "raise", val |-> <<>>, cipher_run |-> TRUE]
    ELSE Bind(CbcDecrypt(key, iv, data), LAMBDA plain :
            LET pad == plain[Len(plain)]
            IN  IF pad > BLOCK THEN [kind |-> "raise", val |-> <<>>, cipher_run |-> TRUE]
                ELSE [kind |-> "ok", cipher_run |-> TRUE,
                      val |-> IF pad = 0 THEN <<>> ELSE DropLastN(plain, pad)])

(* ecdsa.ecdsa.point_is_valid(generator, x, y): the coordinates in range,
   the point on the curve and of the order of the generator.  The range is
   tested against the order, which on secp256k1 is within 2^129 of the field
   prime; scaled, it is tested against the field prime. *)
point_is_valid(P) ==
    /\ P # INFINITY
    /\ P.x >= 0 /\ P.x < CurveP /\ P.y >= 0 /\ P.y < CurveP
    /\ contains_point(P.x, P.y)
    /\ PointMul(P, Order) = INFINITY

\* pow(2, 256) of line 684: the least power of two above the order
EphemeralRange == 32

\* lines 677-695 from the key derivation on: pk is the receiver's point
EncryptTo(aes, message, pk, ephemeral) ==
    Bind(point_to_ser(PointMul(pk, ephemeral.secret), TRUE), LAMBDA ecdh_key :
        IF ecdh_key.kind = "raise" THEN Raised
        ELSE Bind(sha512(ecdh_key.val), LAMBDA key :
             Bind(aes_encrypt_with_iv(aes, Slice(key, BLOCK, 2 * BLOCK), Slice(key, 0, BLOCK),
                                      message), LAMBDA ciphertext :
                IF ciphertext.kind = "raise" THEN Raised
                ELSE Bind(MAGIC \o point_to_ser(ephemeral.pt, TRUE).val \o ciphertext.val,
                          LAMBDA encrypted :
                        Ok(b64encode(encrypted
                                     \o hmac_sha256(SliceFrom(key, 2 * BLOCK), encrypted)))))))

\* lines 677-695, EC_KEY.encrypt_message; number is what randrange returned
encrypt_message(aes, message, pubkey, number) ==
    Bind(ser_to_point(pubkey), LAMBDA pk :
        IF pk.kind # "ok" THEN Raised
        ELSE IF ~point_is_valid(pk.pt) THEN Raised
        ELSE Bind(number_to_string(number), LAMBDA ephemeral_exponent :
                IF ephemeral_exponent.kind = "raise" THEN Raised
                ELSE Bind(EC_KEY(ephemeral_exponent.val), LAMBDA ephemeral :
                        IF ephemeral.kind = "raise" THEN Raised
                        ELSE EncryptTo(aes, message, pk.pt, ephemeral))))

Refused(kind) == [kind |-> kind, val |-> <<>>, cipher_run |-> FALSE]

\* lines 699-705: the length, the magic bytes and the ephemeral point
EnvelopePoint(encrypted) ==
    IF Len(encrypted) < ECIES_MIN THEN [kind |-> "Exception", pt |-> INFINITY]
    ELSE IF Slice(encrypted, 0, Len(MAGIC)) # MAGIC THEN [kind |-> "Exception", pt |-> INFINITY]
    ELSE Bind(ser_to_point(Slice(encrypted, Len(MAGIC), Len(MAGIC) + 1 + COORD_LEN)),
              LAMBDA ephemeral_pubkey :
            IF ephemeral_pubkey.kind # "ok" THEN [kind |-> "Exception", pt |-> INFINITY]
            ELSE IF ~point_is_valid(ephemeral_pubkey.pt)
                 THEN [kind |-> "Exception", pt |-> INFINITY]
            ELSE ephemeral_pubkey)

\* decrypt_message with the cipher run first and the MAC compared afterwards
decrypt_message_cipher_first(aes, secret, text) ==
    Bind(b64decode(text), LAMBDA encrypted :
        IF encrypted.kind = "raise" THEN Refused("Exception")
        ELSE Bind(EnvelopePoint(encrypted.val), LAMBDA ephemeral_pubkey :
                IF ephemeral_pubkey.kind # "ok" THEN Refused("Exception")
                ELSE Bind(point_to_ser(PointMul(ephemeral_pubkey.pt, secret), TRUE),
                          LAMBDA ecdh_key :
                     IF ecdh_key.kind = "raise" THEN Refused("Exception")
                     ELSE Bind(sha512(ecdh_key.val), LAMBDA key :
                          Bind(aes_decrypt_with_iv(aes, Slice(key, BLOCK, 2 * BLOCK),
                                                   Slice(key, 0, BLOCK),
                                                   Slice(encrypted.val, Len(MAGIC) + 1 + COORD_LEN,
                                                         Len(encrypted.val) - SHA256_LEN)),
                               LAMBDA plain :
                             IF LastN(encrypted.val, SHA256_LEN)
                                   # hmac_sha256(SliceFrom(key, 2 * BLOCK),
                                                 DropLastN(encrypted.val, SHA256_LEN))
                             THEN [plain EXCEPT !.kind = "InvalidPassword", !.val = <<>>]
                             ELSE plain)))))

\* lines 697-718, EC_KEY.decrypt_message of the key with this secret
decrypt_message(aes, secret, text) ==
    Bind(b64decode(text), LAMBDA encrypted :
        IF encrypted.kind = "raise" THEN Refused("Exception")
        ELSE Bind(EnvelopePoint(encrypted.val), LAMBDA ephemeral_pubkey :
                IF ephemeral_pubkey.kind # "ok" THEN Refused("Exception")
                ELSE Bind(point_to_ser(PointMul(ephemeral_pubkey.pt, secret), TRUE),
                          LAMBDA ecdh_key :
                     IF ecdh_key.kind = "raise" THEN Refused("Exception")
                     ELSE Bind(sha512(ecdh_key.val), LAMBDA key :
                             IF LastN(encrypted.val, SHA256_LEN)
                                   # hmac_sha256(SliceFrom(key, 2 * BLOCK),
                                                 DropLastN(encrypted.val, SHA256_LEN))
                             THEN Refused("InvalidPassword")
                             ELSE aes_decrypt_with_iv(aes, Slice(key, BLOCK, 2 * BLOCK),
                                                      Slice(key, 0, BLOCK),
                                                      Slice(encrypted.val,
                                                            Len(MAGIC) + 1 + COORD_LEN,
                                                            Len(encrypted.val) - SHA256_LEN))))))

-----------------------------------------------------------------------------
(* ECIES between a sender and the holder of a key.  The build has Cryptodome
   or has not (AES); a message is encrypted to the public key of the holder,
   by this build or, where this build cannot, by a peer without Cryptodome;
   one byte of the envelope may be changed on the way; the holder decrypts. *)

MaxMsg == 2

EciesSecrets == {<<1>>, <<7>>}
EciesMessages == SeqsUpTo({2, 255}, MaxMsg)
\* what is added to the byte that is changed
EciesChanges == {1, 128}

InitEcies ==
    /\ net = MainNet
    /\ AES \in BOOLEAN
    /\ ec = [pc |-> "start", priv |-> <<>>, message |-> <<>>, number |-> 0, own |-> TRUE,
             envelope |-> Raised, cand |-> <<>>, at |-> 0, res |-> Refused("Exception")]
    /\ codec = Idle /\ adr = Idle /\ xk = Idle /\ sg = Idle

\* EC_KEY.encrypt_message(message, pubkey) in this build
Encrypt ==
    /\ ec.pc = "start"
    /\ \E priv \in EciesSecrets, message \in EciesMessages, number \in 1..(EphemeralRange - 1) :
          LET e == encrypt_message(AES, message, GetPubKey(EC_KEY(priv).pt, TRUE).val, number)
          IN  ec' = [ec EXCEPT !.pc = IF e.kind = "ok" THEN "encrypted" ELSE "encrypt_failed",
                               !.priv = priv, !.message = message, !.number = number,
                               !.envelope = e, !.cand = e.val]
    /\ UNCHANGED <<net, AES, codec, adr, xk, sg>>

\* an envelope from a peer whose build has no Cryptodome
PeerEncrypt ==
    /\ ec.pc = "start" /\ AES
    /\ \E priv \in EciesSecrets, message \in EciesMessages, number \in 1..(EphemeralRange - 1) :
          LET e == encrypt_message(FALSE, message, GetPubKey(EC_KEY(priv).pt, TRUE).val, number)
          IN  /\ e.kind = "ok"
              /\ ec' = [ec EXCEPT !.pc = "encrypted", !.own = FALSE,
                                  !.priv = priv, !.message = message, !.number = number,
                                  !.envelope = e, !.cand = e.val]
    /\ UNCHANGED <<net, AES, codec, adr, xk, sg>>

\* one byte of the envelope is changed
Tamper ==
    /\ ec.pc = "encrypted"
    /\ LET bytes == b64decode(ec.envelope.val).val
       IN  \E i \in 1..Len(bytes), d \in EciesChanges :
              ec' = [ec EXCEPT !.pc = "tampered", !.at = i,
                               !.cand = b64encode([bytes EXCEPT ![i] = (@ + d) % 256])]
    /\ UNCHANGED <<net, AES, codec, adr, xk, sg>>

\* EC_KEY(priv).decrypt_message(encrypted)
Decrypt ==
    /\ ec.pc \in {"encrypted", "tampered"}
    /\ ec' = [ec EXCEPT !.pc = "decrypted",
                        !.res = decrypt_message(AES, EC_KEY(ec.priv).secret, ec.cand)]
    /\ UNCHANGED <<net, AES, codec, adr, xk, sg>>

NextEcies == Encrypt \/ PeerEncrypt \/ Tamper \/ Decrypt

SpecEcies == InitEcies /\ [][NextEcies]_vars

\* the trailing bytes of the envelope are the HMAC of the rest under the
\* key that the holder's secret and the ephemeral point of the envelope give
MacMatches(text, priv) ==
    LET encrypted == b64decode(text).val
        point     == ser_to_point(Slice(encrypted, Len(MAGIC), Len(MAGIC) + 1 + COORD_LEN)).pt
        key       == sha512(point_to_ser(PointMul(point, string_to_number(priv)), TRUE).val)
    IN  LastN(encrypted, SHA256_LEN)
           = hmac_sha256(SliceFrom(key, 2 * BLOCK), DropLastN(encrypted, SHA256_LEN))

\* the changed byte lies in the ciphertext or in the MAC
CipherOrMacChanged == ec.at > Len(MAGIC) + 1 + COORD_LEN

(* C6: in decrypt_message the cipher (aes_decrypt_with_iv) is run only after
   the recomputed HMAC over the envelope equals its trailing bytes; when a
   byte of the MAC or of the ciphertext differs from what encrypt_message
   produced, decrypt_message fails with InvalidPassword, the cipher is not
   run and no plaintext is returned. *)
C6_MacBeforeCipher ==
    ec.pc = "decrypted" =>
        /\ ec.res.cipher_run => MacMatches(ec.cand, ec.priv)
        /\ CipherOrMacChanged =>
              ec.res = [kind |-> "InvalidPassword", val |-> <<>>, cipher_run |-> FALSE]

\* a changed ciphertext byte is refused before the cipher, without Cryptodome
C6_Witness ==
    /\ ec.pc = "decrypted" /\ ~AES /\ CipherOrMacChanged
    /\ ec.at <= Len(b64decode(ec.cand).val) - SHA256_LEN
    /\ ec.res.kind = "InvalidPassword" /\ ~ec.res.cipher_run

\* a changed MAC byte; a genuine envelope, for which the cipher is run
C6_WitnessMac ==
    /\ ec.pc = "decrypted" /\ AES
    /\ ec.at > Len(b64decode(ec.cand).val) - SHA256_LEN
    /\ ec.res.kind = "InvalidPassword" /\ ~ec.res.cipher_run

C6_WitnessRun == ec.pc = "decrypted" /\ ec.at = 0 /\ ec.res.cipher_run

(* C7: for every key pair and every message, the empty one included,
   decrypt_message(encrypt_message(m, pub)) returns m, whatever ephemeral
   scalar encrypt_message drew; the envelope of encrypt_message passes the
   length, magic, ephemeral-point and MAC checks of decrypt_message. *)
C7_RoundTrip ==
    /\ ec.pc # "encrypt_failed"
    /\ (ec.pc = "decrypted" /\ ec.at = 0 /\ ec.own) =>
          ec.res = [kind |-> "ok", val |-> ec.message, cipher_run |-> TRUE]

\* without Cryptodome, and for an ephemeral scalar that is not the order,
\* the round trip gives the message back
RoundTripOtherwise ==
    /\ (ec.pc = "encrypt_failed" /\ ~AES) => ec.number % Order = 0
    /\ (ec.pc = "decrypted" /\ ec.at = 0 /\ ~AES) =>
          ec.res = [kind |-> "ok", val |-> ec.message, cipher_run |-> TRUE]

RoundTripWitness ==
    /\ ec.pc = "decrypted" /\ ec.at = 0 /\ ~AES /\ ec.message = <<>>
    /\ ec.res = [kind |-> "ok", val |-> <<>>, cipher_run |-> TRUE]

\* the ephemeral scalar is the order of the group: encrypt_message raises
C7_ScalarIsOrder == ec.pc = "encrypt_failed" /\ ~AES /\ ec.number = Order

-----------------------------------------------------------------------------
(* Payloads under a password, lines 127-161.  A str is a sequence of code
   points, a bytes object a sequence of bytes; a value that can be either
   carries its type. *)

\* str.encode("utf8") for code points below 0x800
RECURSIVE utf8_encode(_)
utf8_encode(text) ==
    IF text = <<>> THEN <<>>
    ELSE (IF Head(text) < 128 THEN <<Head(text)>>
          ELSE <<192 + (Head(text) \div 64), 128 + (Head(text) % 64)>>)
         \o utf8_encode(Tail(text))

\* a continuation byte
IsCont(b, i) == i <= Len(b) /\ b[i] >= 128 /\ b[i] <= 191

\* the length of the well-formed sequence at the head of b, 0 when ill-formed
Utf8Width(b) ==
    IF b[1] < 128 THEN 1
    ELSE IF b[1] >= 194 /\ b[1] <= 223
         THEN IF IsCont(b, 2) THEN 2 ELSE 0
    ELSE IF b[1] >= 224 /\ b[1] <= 239
         THEN IF /\ IsCont(b, 2) /\ IsCont(b, 3)
                 /\ (b[1] = 224 => b[2] >= 160)
                 /\ (b[1] = 237 => b[2] <= 159)
              THEN 3 ELSE 0
    ELSE IF b[1] >= 240 /\ b[1] <= 244
         THEN IF /\ IsCont(b, 2) /\ IsCont(b, 3) /\ IsCont(b, 4)
                 /\ (b[1] = 240 => b[2] >= 144)
                 /\ (b[1] = 244 => b[2] <= 143)
              THEN 4 ELSE 0
    ELSE 0

\* the code point of a well-formed sequence of w bytes at the head of b
Utf8Point(b, w) ==
    IF w = 1 THEN b[1]
    ELSE IF w = 2 THEN (b[1] - 192) * 64 + (b[2] - 128)
    ELSE IF w = 3 THEN (b[1] - 224) * 4096 + (b[2] - 128) * 64 + (b[3] - 128)
    ELSE (b[1] - 240) * 262144 + (b[2] - 128) * 4096 + (b[3] - 128) * 64 + (b[4] - 128)

\* bytes.decode("utf8"): UnicodeDecodeError on an ill-formed sequence
RECURSIVE utf8_decode(_)
utf8_decode(b) ==
    IF b = <<>> THEN Ok(<<>>)
    ELSE Bind(Utf8Width(b), LAMBDA w :
            IF w = 0 THEN Raised
            ELSE Bind(utf8_decode(SliceFrom(b, w)), LAMBDA rest :
                    IF rest.kind = "raise" THEN Raised
                    ELSE Ok(<<Utf8Point(b, w)>> \o rest.val)))

\* EncodeAES(secret, s), lines 127-135; iv is what os.urandom gave
EncodeAES(aes, secret, s, iv) ==
    Bind(aes_encrypt_with_iv(aes, secret, iv, s), LAMBDA ct :
        IF ct.kind = "raise" THEN Raised ELSE Ok(b64encode(iv \o ct.val)))

(* DecodeAES(secret, e), lines 137-144.  base64.b64decode takes bytes or an
   ASCII str and raises ValueError on a str with another character. *)
DecodeAES(aes, secret, e) ==
    IF e.type = "str" /\ \E i \in 1..Len(e.val) : e.val[i] > 127 THEN NoBytes
    ELSE Bind(b64decode(e.val), LAMBDA raw :
            IF raw.kind = "raise" THEN NoBytes
            ELSE aes_decrypt_with_iv(aes, secret, Slice(raw.val, 0, BLOCK),
                                     SliceFrom(raw.val, BLOCK)))

\* a password: None or a str
None == [none |-> TRUE, text |-> <<>>]
Password(text) == [none |-> FALSE, text |-> text]

\* pw_encode(s, password), lines 145-150: `if password:`
pw_encode(aes, s, password, iv) ==
    IF ~password.none /\ password.text # <<>>
    THEN Bind(Hash(utf8_encode(password.text)), LAMBDA secret :
            Bind(EncodeAES(aes, secret, utf8_encode(s), iv), LAMBDA e :
                IF e.kind = "raise" THEN [kind |-> "TypeError", type |-> "bytes", val |-> <<>>]
                ELSE [kind |-> "ok", type |-> "bytes", val |-> e.val]))
    ELSE [kind |-> "ok", type |-> "str", val |-> s]

InvalidPassword(run) ==
    [kind |-> "InvalidPassword", type |-> "str", val |-> <<>>, decoded |-> TRUE,
     cipher_run |-> run]

\* pw_decode(s, password), lines 152-161: `if password is not None:`
pw_decode(aes, s, password) ==
    IF ~password.none
    THEN Bind(Hash(utf8_encode(password.text)), LAMBDA secret :
            Bind(DecodeAES(aes, secret, s), LAMBDA d :
                IF d.kind = "raise" THEN InvalidPassword(d.cipher_run)
                ELSE Bind(utf8_decode(d.val), LAMBDA t :
                        IF t.kind = "raise" THEN InvalidPassword(TRUE)
                        ELSE [kind |-> "ok", type |-> "str", val |-> t.val,
                              decoded |-> TRUE, cipher_run |-> TRUE])))
    ELSE [kind |-> "ok", type |-> s.type, val |-> s.val, decoded |-> FALSE,
          cipher_run |-> FALSE]

-----------------------------------------------------------------------------
(* A text is encoded under a password and decoded under the same one, or
   under another; the build has Cryptodome or has not. *)

MaxSecret == 2

\* 'A', 'é'; and 'AAAAAADT', a text that is base64 of an iv and two blocks
SecretTexts == SeqsUpTo({65, 233}, MaxSecret) \cup {<<65, 65, 65, 65, 65, 65, 68, 84>>}
Passwords == {None, Password(<<>>), Password(<<112>>), Password(<<112, 233>>)}
InitVectors == {<<0, 0>>, <<7, 200>>, <<255, 1>>}

NoPayload == [kind |-> "raise", type |-> "str", val |-> <<>>]

InitPassword ==
    /\ net = MainNet
    /\ AES \in BOOLEAN
    /\ ec = [pc |-> "start", s |-> <<>>, password |-> None, with |-> None,
             payload |-> NoPayload, res |-> InvalidPassword(FALSE)]
    /\ codec = Idle /\ adr = Idle /\ xk = Idle /\ sg = Idle

\* pw_encode(s, password)
PwEncode ==
    /\ ec.pc = "start"
    /\ \E s \in SecretTexts, password \in Passwords, iv \in InitVectors :
          ec' = Bind(pw_encode(AES, s, password, iv), LAMBDA e :
                    [ec EXCEPT !.pc = IF e.kind = "ok" THEN "encoded" ELSE "encode_failed",
                               !.s = s, !.password = password, !.payload = e])
    /\ UNCHANGED <<net, AES, codec, adr, xk, sg>>

\* pw_decode(payload, password) with the password of pw_encode
PwDecode ==
    /\ ec.pc = "encoded"
    /\ ec' = [ec EXCEPT !.pc = "decoded", !.with = ec.password,
                        !.res = pw_decode(AES, ec.payload, ec.password)]
    /\ UNCHANGED <<net, AES, codec, adr, xk, sg>>

\* pw_decode(payload, password) with another password
PwDecodeOther ==
    /\ ec.pc = "encoded"
    /\ \E password \in Passwords \ {ec.password} :
          ec' = [ec EXCEPT !.pc = "decoded", !.with = password,
                           !.res = pw_decode(AES, ec.payload, password)]
    /\ UNCHANGED <<net, AES, codec, adr, xk, sg>>

NextPassword == PwEncode \/ PwDecode \/ PwDecodeOther

SpecPassword == InitPassword /\ [][NextPassword]_vars

(* C15: for every text s and every password p, None, the empty string or a
   non-empty one, pw_decode(pw_encode(s, p), p) returns s; a payload that
   pw_encode left as plaintext is not run through decryption by pw_decode
   with the same password and does not raise InvalidPassword. *)
C15_PasswordRoundTrip ==
    /\ ec.pc # "encode_failed"
    /\ (ec.pc = "decoded" /\ ec.with = ec.password) =>
          /\ ec.res.kind = "ok" /\ ec.res.type = "str" /\ ec.res.val = ec.s
          /\ ec.payload.type = "str" => ~ec.res.decoded

\* what does hold: None gives the text back untouched, and without
\* Cryptodome a non-empty password gives it back through the cipher
RoundTripUnderPassword ==
    /\ (ec.pc = "encode_failed") => (AES /\ ~ec.password.none /\ ec.password.text # <<>>)
    /\ (ec.pc = "decoded" /\ ec.with = ec.password /\ ec.password.none) =>
          (ec.res.kind = "ok" /\ ec.res.val = ec.s /\ ~ec.res.decoded)
    /\ (ec.pc = "decoded" /\ ec.with = ec.password /\ ~AES /\ ec.payload.type = "bytes") =>
          (ec.res.kind = "ok" /\ ec.res.val = ec.s /\ ec.res.cipher_run)

\* the empty password: the text is kept as it is and then taken for a
\* ciphertext, never given back
EmptyPasswordNeverRoundTrips ==
    (ec.pc = "decoded" /\ ec.with = ec.password /\ ec.password = Password(<<>>)) =>
        /\ ec.payload = [kind |-> "ok", type |-> "str", val |-> ec.s]
        /\ ec.res.decoded
        /\ ~(ec.res.kind = "ok" /\ ec.res.val = ec.s)

C15_EmptyPasswordRaises ==
    /\ ec.pc = "decoded" /\ ec.with = ec.password /\ ec.password = Password(<<>>)
    /\ ec.s = <<65>> /\ ec.res.kind = "InvalidPassword"

\* the text read as a ciphertext decrypts to something else
C15_EmptyPasswordOtherText ==
    /\ ec.pc = "decoded" /\ ec.with = ec.password /\ ec.password = Password(<<>>)
    /\ ~AES /\ ec.res.kind = "ok" /\ ec.res.val # ec.s

RoundTripUnderPasswordWitness ==
    /\ ec.pc = "decoded" /\ ec.with = ec.password /\ ~AES
    /\ ec.password = Password(<<112, 233>>) /\ ec.s = <<65, 233>>
    /\ ec.res.kind = "ok" /\ ec.res.val = ec.s /\ ec.res.cipher_run

=============================================================================
